---- MODULE Spec2Model ----
(***************************************************************************)
(* Message Translation Relay Engine of the Discord translator bot.         *)
(* The model follows the revision in src/unnamed/part_001, lines 554-1601  *)
(* (the same code, minus the reaction path, is src/unnamed/part_000).      *)
(*                                                                         *)
(* Time is Date.now() in milliseconds.  Identifiers (users, channels,      *)
(* guilds, messages) are Discord snowflakes, i.e. digit strings, so the    *)
(* keys the code builds as `${a}-${b}` are modelled as tuples <<a, b>>;    *)
(* the translation cache key, built from free text, is kept as a string.   *)
(***************************************************************************)
EXTENDS Integers, Sequences, FiniteSets, TLC

VARIABLES
    now,                 \* Date.now()
    deeplKey,            \* process.env.DEEPL_API_KEY is set
    translationCache,    \* Map<cacheKey, {result, timestamp}>
    rateLimits,          \* Map<userId-channelId, timestamp>
    reactionLimits,      \* Map<userId-guildId-channelId, {count, resetTime}>
    messageTranslations, \* Map<messageId-langCode, timestamp>
    recentTranslations,  \* Set<messageId>
    timers,              \* pending setTimeout callbacks
    guildConfigs,        \* Map<guildId, {pairs}>
    reactionChannels,    \* Map<guildId, Map<channelId, {cooldownEnabled}>>
    reactionDb,          \* rows of reaction_channels held by the persistence service
    loads,               \* guild configuration loads in flight
    db,                  \* rows of translation_pairs held by the persistence service
    dbOps,               \* persistence requests in flight
    messages,            \* messages that exist on the platform
    pendingEvents,       \* messageCreate events not yet delivered
    tasks,               \* running and finished handler invocations
    sends,               \* history: messages sent by the relay
    marks,               \* history: markTranslated calls
    admits,              \* history: last two admits of isRateLimited per key
    winAdmits,           \* history: admits of isReactionRateLimited in the open window
    lastCall,            \* history: the last direct call and what it returned
    replies              \* history: replies of the command handler

vars == <<now, deeplKey, translationCache, rateLimits, reactionLimits,
          messageTranslations, recentTranslations, timers, guildConfigs,
          reactionChannels, reactionDb, loads, db, dbOps, messages, pendingEvents, tasks, sends, marks, admits,
          winAdmits, lastCall, replies>>

(***************************************************************************)
(* Program constants                                                       *)
(***************************************************************************)
TRANSLATION_COOLDOWN == 2000
CACHE_TTL == 120000
REACTION_COOLDOWN == 30000
MAX_REACTIONS_PER_MINUTE == 5
RECENT_TTL == 30000
RATE_LIMITS_MAX == 500
COMPANION_TTL == 300000
COMPANION_CLEANUP == 600000
RETRY_DELAY == 2000
CACHE_MAX == 100

(***************************************************************************)
(* Bounds of the model                                                     *)
(***************************************************************************)
Background == 499        \* keys of other users already tracked by rateLimits
MaxCooldownTicks == 4    \* clock steps of the cooldown specification
MaxBurstTicks == 3       \* clock steps of the burst specification
MaxMessages == 3         \* relay: messages on the platform, the relayed ones included
MaxPosts == 1            \* relay: messages posted by members and other bots
MaxFanOuts == 2          \* relay: handler invocations that reach the loop
MaxRelayTicks == 2       \* clock steps of the relay specification
MaxCommands == 2         \* pairs: slash commands received
MaxPairTicks == 1        \* clock steps of the pair specification

None == "none"
EmptyMap == [k \in {} |-> None]

Put(f, k, v) == [x \in DOMAIN f \cup {k} |-> IF x = k THEN v ELSE f[x]]
Drop(f, ks) == [x \in DOMAIN f \ ks |-> f[x]]

(***************************************************************************)
(* Rate limiter, cooldown policy: isRateLimited(userId, channelId)         *)
(***************************************************************************)
RateKey(userId, channelId) == <<userId, channelId>>

\* `lastTime && now - lastTime < TRANSLATION_COOLDOWN`
CooldownActive(limits, key, t) ==
    /\ key \in DOMAIN limits
    /\ limits[key] # 0
    /\ t - limits[key] < TRANSLATION_COOLDOWN

\* faulty variant: the scan drops keys that are still inside their cooldown
PurgeStaleEager(limits, t) ==
    IF Cardinality(DOMAIN limits) > RATE_LIMITS_MAX
    THEN Drop(limits, {k \in DOMAIN limits : t - limits[k] > TRANSLATION_COOLDOWN \div 2})
    ELSE limits

\* the stale-key scan run after the insertion
PurgeStale(limits, t) ==
    IF Cardinality(DOMAIN limits) > RATE_LIMITS_MAX
    THEN Drop(limits, {k \in DOMAIN limits : t - limits[k] > TRANSLATION_COOLDOWN * 2})
    ELSE limits

isRateLimited(limits, userId, channelId, t) ==
    CooldownActive(limits, RateKey(userId, channelId), t)

\* rateLimits after a call of isRateLimited
RateLimitsAfter(limits, userId, channelId, t) ==
    IF isRateLimited(limits, userId, channelId, t)
    THEN limits
    ELSE PurgeStale(Put(limits, RateKey(userId, channelId), t), t)

\* history of admits: the last two admit times of the key, latest last
NoteAdmit(log, key, t) ==
    Put(log, key, IF key \in DOMAIN log THEN <<log[key][Len(log[key])], t>> ELSE <<t>>)

(***************************************************************************)
(* Rate limiter, burst policy: isReactionRateLimited                       *)
(***************************************************************************)
ReactionKey(userId, guildId, channelId) == <<userId, guildId, channelId>>

WindowOpen(limits, key, t) == key \in DOMAIN limits /\ ~(t > limits[key].resetTime)

\* faulty variant: off by one: the quota admits one call too many
QuotaUsedLate(entry) == entry.count > MAX_REACTIONS_PER_MINUTE

QuotaUsed(entry) == entry.count >= MAX_REACTIONS_PER_MINUTE

isReactionRateLimited(limits, userId, guildId, channelId, cooldownEnabled, t) ==
    LET key == ReactionKey(userId, guildId, channelId) IN
    /\ cooldownEnabled
    /\ WindowOpen(limits, key, t)
    /\ QuotaUsed(limits[key])

ReactionLimitsAfter(limits, userId, guildId, channelId, cooldownEnabled, t) ==
    LET key == ReactionKey(userId, guildId, channelId) IN
    IF ~cooldownEnabled THEN limits
    ELSE IF ~WindowOpen(limits, key, t)
         THEN Put(limits, key, [count |-> 1, resetTime |-> t + REACTION_COOLDOWN])
    ELSE IF QuotaUsed(limits[key]) THEN limits
    ELSE Put(limits, key, [limits[key] EXCEPT !.count = @ + 1])

(***************************************************************************)
(* Initial values: the module-level maps and sets are empty at start-up    *)
(***************************************************************************)
Users == {1, 2}
Channels == {11, 12}
Guilds == {21}
BackgroundKeys == {RateKey(1000 + i, 11) : i \in 1..Background}

NoCall == [fn |-> None, enabled |-> TRUE, limited |-> FALSE, before |-> EmptyMap]

InitLimiters ==
    /\ rateLimits = EmptyMap
    /\ reactionLimits = EmptyMap
    /\ admits = EmptyMap
    /\ winAdmits = EmptyMap
    /\ lastCall = NoCall

InitGuards ==
    /\ messageTranslations = EmptyMap
    /\ recentTranslations = {}
    /\ timers = {}
    /\ marks = {}

InitTranslate ==
    /\ deeplKey = FALSE
    /\ translationCache = EmptyMap

InitPairs ==
    /\ guildConfigs = EmptyMap
    /\ reactionChannels = EmptyMap
    /\ reactionDb = {}
    /\ loads = <<>>
    /\ db = {}
    /\ dbOps = <<>>
    /\ replies = <<>>

InitRelay ==
    /\ messages = <<>>
    /\ pendingEvents = {}
    /\ tasks = <<>>
    /\ sends = <<>>

limiterVars == <<rateLimits, reactionLimits, admits, winAdmits, lastCall>>
guardVars == <<messageTranslations, recentTranslations, timers, marks>>
translateVars == <<deeplKey, translationCache>>
pairVars == <<guildConfigs, reactionChannels, reactionDb, loads, db, dbOps, replies>>
relayVars == <<messages, pendingEvents, tasks, sends>>

(***************************************************************************)
(* SpecCooldown: isRateLimited called directly, for any key, at any time   *)
(***************************************************************************)
CooldownSteps == {TRANSLATION_COOLDOWN - 1, TRANSLATION_COOLDOWN, TRANSLATION_COOLDOWN + 1}

InitCooldown ==
    /\ now = 1
    /\ InitGuards /\ InitTranslate /\ InitPairs /\ InitRelay
    /\ reactionLimits = EmptyMap
    /\ winAdmits = EmptyMap
    /\ admits = EmptyMap
    /\ lastCall = NoCall
    \* other users' keys recorded at start-up time, or none
    /\ rateLimits \in {EmptyMap, [k \in BackgroundKeys |-> 1]}

CallIsRateLimited(userId, channelId) ==
    LET limited == isRateLimited(rateLimits, userId, channelId, now) IN
    /\ rateLimits' = RateLimitsAfter(rateLimits, userId, channelId, now)
    /\ admits' = IF limited THEN admits ELSE NoteAdmit(admits, RateKey(userId, channelId), now)
    /\ lastCall' = [fn |-> "isRateLimited", enabled |-> TRUE, limited |-> limited,
                    before |-> EmptyMap]
    /\ UNCHANGED <<now, reactionLimits, winAdmits, guardVars, translateVars, pairVars,
                   relayVars>>

TickCooldown ==
    \E d \in CooldownSteps :
        /\ now + d <= 1 + MaxCooldownTicks * (TRANSLATION_COOLDOWN + 1)
        /\ now' = now + d
        /\ UNCHANGED <<limiterVars, guardVars, translateVars, pairVars, relayVars>>

NextCooldown ==
    \/ \E u \in Users : CallIsRateLimited(u, 11)
    \/ TickCooldown

SpecCooldown == InitCooldown /\ [][NextCooldown]_vars

\* C4: for every key, two admits of isRateLimited are never less than
\* TRANSLATION_COOLDOWN apart (at most one admit in any window of that length),
\* whether or not the stale-key purge ran in between.
C4_CooldownAtMostOnePerWindow ==
    \A k \in DOMAIN admits :
        Len(admits[k]) = 2 => admits[k][2] - admits[k][1] >= TRANSLATION_COOLDOWN

\* a key admitted twice while the purge ran: another admitted key is no longer tracked
C4_Witness ==
    /\ \E k \in DOMAIN admits : Len(admits[k]) = 2 /\ k \in DOMAIN rateLimits
    /\ \E k \in DOMAIN admits : k \notin DOMAIN rateLimits
    /\ lastCall.fn = "isRateLimited" /\ ~lastCall.limited

(***************************************************************************)
(* SpecBurst: isReactionRateLimited called directly                        *)
(***************************************************************************)
BurstSteps == {REACTION_COOLDOWN, REACTION_COOLDOWN + 1}

InitBurst ==
    /\ now = 1
    /\ InitLimiters /\ InitGuards /\ InitTranslate /\ InitPairs /\ InitRelay

\* history: the number of admits since the admit that set the key's resetTime
NoteWindowAdmit(w, before, after, key) ==
    IF key \in DOMAIN before /\ before[key].resetTime = after[key].resetTime
    THEN Put(w, key, w[key] + 1)
    ELSE Put(w, key, 1)

CallIsReactionRateLimited(userId, guildId, channelId, cooldownEnabled) ==
    LET key == ReactionKey(userId, guildId, channelId)
        limited == isReactionRateLimited(reactionLimits, userId, guildId, channelId,
                                         cooldownEnabled, now)
        after == ReactionLimitsAfter(reactionLimits, userId, guildId, channelId,
                                     cooldownEnabled, now)
    IN
    /\ reactionLimits' = after
    /\ winAdmits' = IF cooldownEnabled /\ ~limited
                    THEN NoteWindowAdmit(winAdmits, reactionLimits, after, key)
                    ELSE winAdmits
    /\ lastCall' = [fn |-> "isReactionRateLimited", enabled |-> cooldownEnabled,
                    limited |-> limited, before |-> reactionLimits]
    /\ UNCHANGED <<now, rateLimits, admits, guardVars, translateVars, pairVars, relayVars>>

TickBurst ==
    \E d \in BurstSteps :
        /\ now + d <= 1 + MaxBurstTicks * (REACTION_COOLDOWN + 1)
        /\ now' = now + d
        /\ UNCHANGED <<limiterVars, guardVars, translateVars, pairVars, relayVars>>

NextBurst ==
    \/ \E u \in Users, enabled \in BOOLEAN : CallIsReactionRateLimited(u, 21, 11, enabled)
    \/ TickBurst

SpecBurst == InitBurst /\ [][NextBurst]_vars

\* C5: with the cooldown enabled a key gets at most MAX_REACTIONS_PER_MINUTE admits
\* between the admit that sets resetTime and the first call with now > resetTime,
\* the stored count stays in 1..MAX_REACTIONS_PER_MINUTE, and a call with the
\* cooldown disabled is admitted and leaves reactionLimits as it was.
C5_BurstQuota ==
    /\ \A k \in DOMAIN winAdmits : winAdmits[k] <= MAX_REACTIONS_PER_MINUTE
    /\ \A k \in DOMAIN reactionLimits :
           reactionLimits[k].count \in 1..MAX_REACTIONS_PER_MINUTE
    /\ (lastCall.fn = "isReactionRateLimited" /\ ~lastCall.enabled)
           => (~lastCall.limited /\ reactionLimits = lastCall.before)

\* a key whose quota is used up: its last enabled call was rejected...
C5_Witness ==
    /\ lastCall.fn = "isReactionRateLimited" /\ lastCall.enabled /\ lastCall.limited
    /\ \E k \in DOMAIN winAdmits : winAdmits[k] = MAX_REACTIONS_PER_MINUTE
    \* ...in a window that is not the key's first one
    /\ \E k \in DOMAIN reactionLimits :
           /\ reactionLimits[k].count = MAX_REACTIONS_PER_MINUTE
           /\ reactionLimits[k].resetTime > 1 + REACTION_COOLDOWN

(***************************************************************************)
(* Text.  A string is the sequence of its UTF-16 code units.               *)
(***************************************************************************)
Auto == <<97, 117, 116, 111>>   \* "auto"
En == <<101, 110>>              \* "en"
Fr == <<102, 114>>              \* "fr"
Es == <<101, 115>>              \* "es"
Hi == <<104, 105>>              \* "hi"
Ar == <<97, 114>>               \* "ar"
Zh == <<122, 104>>              \* "zh"
Ja == <<106, 97>>               \* "ja"
Ko == <<107, 111>>              \* "ko"
Ru == <<114, 117>>              \* "ru"
Dash == <<45>>                  \* "-"

\* \s of the regular expression, also what trim() strips
IsSpace(c) ==
    \/ c \in 9..13
    \/ c \in {32, 160, 5760, 8232, 8233, 8239, 8287, 12288, 65279}
    \/ c \in 8192..8202

Devanagari == 2304..2431     \* [\u0900-\u097F]
Arabic == 1536..1791         \* [\u0600-\u06FF]
CJK == 19968..40959          \* [\u4E00-\u9FFF]
Kana == 12352..12543         \* [\u3040-\u309F\u30A0-\u30FF]
Hangul == 44032..55215       \* [\uAC00-\uD7AF]
Cyrillic == 1024..1279       \* [\u0400-\u04FF]

\* \p{L} on the code points the model uses: Basic Latin and Latin-1 letters and the
\* letters of the six script blocks (their marks, digits and signs are not letters)
IsLetter(c) ==
    \/ c \in 65..90 \/ c \in 97..122
    \/ c \in {170, 181, 186} \/ c \in 192..214 \/ c \in 216..246 \/ c \in 248..591
    \/ c \in 1024..1153 \/ c \in 1162..1279
    \/ c \in 1568..1610 \/ c \in 1646..1647 \/ c \in 1649..1747
    \/ c \in 2308..2361 \/ c \in {2365, 2384} \/ c \in 2392..2401 \/ c \in 2417..2431
    \/ c \in 12353..12438 \/ c \in 12445..12447 \/ c \in 12449..12538 \/ c \in 12540..12543
    \/ c \in 19968..40959
    \/ c \in 44032..55203

\* (cleanText.match(/[range]/g) || []).length
Count(text, range) == Cardinality({i \in 1..Len(text) : text[i] \in range})

\* text.replace(/[^\p{L}\s]/gu, '')
CleanText(text) == SelectSeq(text, LAMBDA c : IsLetter(c) \/ IsSpace(c))

RECURSIVE TrimStart(_)
TrimStart(text) ==
    IF text # <<>> /\ IsSpace(Head(text)) THEN TrimStart(Tail(text)) ELSE text

RECURSIVE TrimEnd(_)
TrimEnd(text) ==
    IF text # <<>> /\ IsSpace(text[Len(text)])
    THEN TrimEnd(SubSeq(text, 1, Len(text) - 1))
    ELSE text

Trim(text) == TrimEnd(TrimStart(text))

(***************************************************************************)
(* Language Detector: detectLanguage(text)                                 *)
(***************************************************************************)
\* faulty variant: a share of exactly 30% qualifies
OverThresholdInclusive(count, total) == count * 10 >= total * 3

\* `count > total * 0.3`, in tenths (the product in floating point compares as
\* the exact one for every length up to 4000)
OverThreshold(count, total) == count * 10 > total * 3

\* faulty variant: a text with no letter and no whitespace gets the empty tag
DefaultMissing(total) == IF total = 0 THEN <<>> ELSE En

\* `return 'en'`, for an empty clean text and when no script is over the threshold
Default(total) == En

detectLanguage(text) ==
    LET cleanText == CleanText(text)
        total == Len(cleanText)
    IN  IF total = 0 THEN Default(total)
        ELSE IF OverThreshold(Count(cleanText, Devanagari), total) THEN Hi
        ELSE IF OverThreshold(Count(cleanText, Arabic), total) THEN Ar
        ELSE IF OverThreshold(Count(cleanText, CJK), total) THEN Zh
        ELSE IF OverThreshold(Count(cleanText, Kana), total) THEN Ja
        ELSE IF OverThreshold(Count(cleanText, Hangul), total) THEN Ko
        ELSE IF OverThreshold(Count(cleanText, Cyrillic), total) THEN Ru
        ELSE Default(total)

(***************************************************************************)
(* SpecDetect: detectLanguage called directly, on texts made of letters of *)
(* the six scripts, Latin letters, whitespace and characters that are      *)
(* neither, while the clock runs                                           *)
(***************************************************************************)
MaxLen == 10             \* code units of a text
MaxDetectTicks == 1      \* clock steps of the detect specification

RECURSIVE Repeat(_, _)
Repeat(c, n) == IF n = 0 THEN <<>> ELSE <<c>> \o Repeat(c, n - 1)

\* n code units that survive the cleaning: Latin letters and spaces in turn
Kept(n) == [i \in 1..n |-> IF i % 2 = 1 THEN 97 ELSE 32]

\* one letter of each script, in the order of the tests, and a digit
ScriptLetters == <<2309, 1576, 20013, 12354, 44032, 1087>>
Removed == <<49>>

\* the text with counts[k] letters of script k, then counts[7] kept and counts[8]
\* removed code units
TextOf(counts) ==
    Repeat(Removed[1], counts[8]) \o Repeat(ScriptLetters[1], counts[1])
        \o Repeat(ScriptLetters[2], counts[2]) \o Repeat(ScriptLetters[3], counts[3])
        \o Repeat(ScriptLetters[4], counts[4]) \o Repeat(ScriptLetters[5], counts[5])
        \o Repeat(ScriptLetters[6], counts[6]) \o Kept(counts[7])

InitDetect ==
    /\ now = 1
    /\ rateLimits = EmptyMap /\ reactionLimits = EmptyMap
    /\ admits = EmptyMap /\ winAdmits = EmptyMap
    /\ \E hi \in 0..MaxLen : \E ar \in 0..(MaxLen - hi) : \E zh \in 0..(MaxLen - hi - ar) :
       \E ja \in 0..(MaxLen - hi - ar - zh) : \E ko \in 0..(MaxLen - hi - ar - zh - ja) :
       \E ru \in 0..(MaxLen - hi - ar - zh - ja - ko) :
       \E kept \in 0..(MaxLen - hi - ar - zh - ja - ko - ru) :
       \E removed \in 0..(MaxLen - hi - ar - zh - ja - ko - ru - kept) :
           lastCall = [fn |-> "detectLanguage",
                       text |-> TextOf(<<hi, ar, zh, ja, ko, ru, kept, removed>>),
                       tag |-> None, first |-> None, at |-> 0]
    /\ InitGuards /\ InitTranslate /\ InitPairs /\ InitRelay

\* detectLanguage(text) is called; `first` keeps what the first call returned
CallDetectLanguage ==
    LET tag == detectLanguage(lastCall.text) IN
    /\ lastCall' = [lastCall EXCEPT !.tag = tag, !.at = now,
                                    !.first = IF @ = None THEN tag ELSE @]
    /\ UNCHANGED <<now, rateLimits, reactionLimits, admits, winAdmits, guardVars,
                   translateVars, pairVars, relayVars>>

TickDetect ==
    /\ now + 1 <= 1 + MaxDetectTicks
    /\ now' = now + 1
    /\ UNCHANGED <<limiterVars, guardVars, translateVars, pairVars, relayVars>>

NextDetect == CallDetectLanguage \/ TickDetect

SpecDetect == InitDetect /\ [][NextDetect]_vars

DetectTags == {Hi, Ar, Zh, Ja, Ko, Ru, En}
Detected == lastCall.fn = "detectLanguage" /\ lastCall.at # 0

ScriptRanges == <<Devanagari, Arabic, CJK, Kana, Hangul, Cyrillic>>
ScriptTags == <<Hi, Ar, Zh, Ja, Ko, Ru>>
CleanLength(text) == Len(CleanText(text))
\* the scripts with more than 30% of the code units of the clean text
Qualifying(text) ==
    LET clean == CleanText(text) IN
    {k \in 1..6 : 10 * Count(clean, ScriptRanges[k]) > 3 * Len(clean)}

\* C24: detectLanguage returns en for a text whose clean length is 0 and for a text
\* with no script over 30% of the clean length, and otherwise the tag of the first
\* script, in the order hi, ar, zh, ja, ko, ru, that is over 30%.
C24_ThresholdRule ==
    Detected =>
        LET Q == Qualifying(lastCall.text) IN
        IF Q = {}
        THEN lastCall.tag = En
        ELSE lastCall.tag = ScriptTags[CHOOSE k \in Q : \A k2 \in Q : k <= k2]

\* a text whose clean length is 10, with 3 Devanagari and 4 Cyrillic letters, is
\* ru: exactly 30% does not make it hi
C24_Witness ==
    /\ Detected /\ CleanLength(lastCall.text) = 10
    /\ Count(lastCall.text, Devanagari) = 3 /\ Count(lastCall.text, Cyrillic) = 4
    /\ lastCall.tag = Ru

(***************************************************************************)
(* Providers                                                               *)
(***************************************************************************)
\* SERVICE_CAPABILITIES.deepl, which is also the key set of langMap
DeepLLangs ==
    {<<101, 110>>, <<100, 101>>, <<101, 115>>, <<102, 114>>, <<105, 116>>, <<110, 108>>,
     <<112, 108>>, <<112, 116>>, <<114, 117>>, <<106, 97>>, <<122, 104>>, <<107, 111>>,
     <<116, 114>>, <<115, 118>>, <<100, 97>>, <<102, 105>>, <<110, 111>>, <<99, 115>>,
     <<98, 103>>, <<114, 111>>, <<101, 108>>, <<104, 117>>, <<115, 107>>, <<115, 108>>,
     <<101, 116>>, <<108, 118>>, <<108, 116>>, <<105, 100>>, <<117, 107>>}

Null == [by |-> "null"]
Undefined == [by |-> "undefined"]
EmptyString == [by |-> "empty"]
Truthy(v) == v.by \notin {"null", "undefined", "empty"}

\* faulty variant: an `auto` source is resolved by the local detector for DeepL too
DeepLTextDetected(text, sourceLang, targetLang) ==
    [by |-> "deepl", text |-> text,
     from |-> IF sourceLang = Auto THEN detectLanguage(text)
              ELSE IF sourceLang \in DeepLLangs THEN sourceLang ELSE Auto,
     to |-> targetLang]

\* what DeepL answers: source_lang is sent only when it is not auto and is in langMap
DeepLText(text, sourceLang, targetLang) ==
    [by |-> "deepl", text |-> text,
     from |-> IF sourceLang # Auto /\ sourceLang \in DeepLLangs THEN sourceLang ELSE Auto,
     to |-> targetLang]

\* what MyMemory answers for langpair `${sourceLang}|${targetLang}`
MyMemoryText(text, sourceLang, targetLang) ==
    [by |-> "mymemory", text |-> text, from |-> sourceLang, to |-> targetLang]

(***************************************************************************)
(* Translation cache                                                       *)
(***************************************************************************)
\* `${text}-${sourceLang}-${targetLang}`
CacheKey(text, sourceLang, targetLang) == text \o Dash \o sourceLang \o Dash \o targetLang

\* faulty variant: the age test is inverted: only expired entries are served
CacheHitInverted(cache, key, t) ==
    key \in DOMAIN cache /\ t - cache[key].timestamp > CACHE_TTL

\* faulty variant: an entry of age CACHE_TTL is still served
CacheHitInclusive(cache, key, t) ==
    key \in DOMAIN cache /\ t - cache[key].timestamp <= CACHE_TTL

\* `cached && Date.now() - cached.timestamp < CACHE_TTL`
CacheHit(cache, key, t) == key \in DOMAIN cache /\ t - cache[key].timestamp < CACHE_TTL

\* faulty variant: the scan also deletes an entry of age CACHE_TTL
ExpiredInclusive(entry, t) == t - entry.timestamp >= CACHE_TTL

\* `now - value.timestamp > CACHE_TTL`
Expired(entry, t) == t - entry.timestamp > CACHE_TTL

\* the scan for expired entries, run when the cache has grown past CACHE_MAX
EvictExpired(cache, t) ==
    IF Cardinality(DOMAIN cache) > CACHE_MAX
    THEN Drop(cache, {k \in DOMAIN cache : Expired(cache[k], t)})
    ELSE cache

\* faulty variant: an entry the key already has is kept
CacheStoreIfAbsent(cache, key, result, t) ==
    IF key \in DOMAIN cache THEN cache
    ELSE EvictExpired(Put(cache, key, [result |-> result, timestamp |-> t]), t)

\* translationCache.set(cacheKey, {result, timestamp}) and the scan after it
CacheStore(cache, key, result, t) ==
    EvictExpired(Put(cache, key, [result |-> result, timestamp |-> t]), t)

(***************************************************************************)
(* Handler invocations.  A task is one running async call: a direct call   *)
(* of translate (kind "translate"), a messageCreate handler (kind          *)
(* "message") or a messageReactionAdd handler (kind "reaction").  pc names *)
(* the await the task is suspended at.                                     *)
(*   calls    history: what the task invoked and what answered             *)
(*   at       history: when the task started (a call of translate: when it *)
(*            started, if a call for the same triple had stored a result)  *)
(*   endSeq   history: rank of this call among the returned ones           *)
(*   warm     history: the calls for the same triple that had returned a   *)
(*            provider's text less than CACHE_TTL before this one started  *)
(*   latest   history: the call for the same triple that had stored its    *)
(*            result last when this one started (0: none)                  *)
(***************************************************************************)
Log(tk, what) == [tk EXCEPT !.calls = Append(@, what)]
Invoked(tk, what) == \E n \in 1..Len(tk.calls) : tk.calls[n] = what
Times(tk, what) == Cardinality({n \in 1..Len(tk.calls) : tk.calls[n] = what})

TaskIds == 1..Len(tasks)
IsDone(tk) == tk.pc = "done"
Calls == {j \in TaskIds : tasks[j].kind = "translate"}
Threw(tk) == IsDone(tk) /\ tk.outcome = "throw"
GotText(tk) == IsDone(tk) /\ (Invoked(tk, "deepl.ok") \/ Invoked(tk, "mymemory.ok"))
\* the task's call ended with a provider's answer, which it stored
Stored(tk) == GotText(tk) \/ (IsDone(tk) /\ Invoked(tk, "deepl.malformed"))
SameTriple(tk, text, sourceLang, targetLang) ==
    tk.text = text /\ tk.src = sourceLang /\ tk.tgt = targetLang

WarmNow(text, sourceLang, targetLang) ==
    {a \in TaskIds : /\ GotText(tasks[a])
                     /\ SameTriple(tasks[a], text, sourceLang, targetLang)
                     /\ now - tasks[a].endedAt < CACHE_TTL}

LatestStoredNow(text, sourceLang, targetLang) ==
    LET S == {b \in TaskIds : Stored(tasks[b])
                              /\ SameTriple(tasks[b], text, sourceLang, targetLang)}
    IN  IF S = {} THEN 0
        ELSE CHOOSE b \in S : \A b2 \in S : tasks[b2].endSeq <= tasks[b].endSeq

NewTask(kind, text, sourceLang, targetLang) ==
    [kind |-> kind, pc |-> "start", text |-> text, src |-> sourceLang, tgt |-> targetLang,
     mmSource |-> <<>>, calls |-> <<>>, outcome |-> "pending", result |-> Null,
     endedAt |-> 0, endSeq |-> 0, warm |-> {}, latest |-> 0,
     msg |-> 0, at |-> 0, pairs |-> <<>>, i |-> 0, skipped |-> 0,
     translated |-> Null, sent |-> 0, user |-> 0, emoji |-> "", retryCount |-> 0]

\* a direct call of translate
NewCall(text, sourceLang, targetLang) ==
    [NewTask("translate", text, sourceLang, targetLang) EXCEPT
        !.at = IF LatestStoredNow(text, sourceLang, targetLang) = 0 THEN 0 ELSE now,
        !.warm = WarmNow(text, sourceLang, targetLang),
        !.latest = LatestStoredNow(text, sourceLang, targetLang)]

\* the for loop of the message handler moves on to its next pair: the next
\* await is the fetch of that pair's target channel
NextPair(tk) ==
    IF tk.i < Len(tk.pairs)
    THEN [tk EXCEPT !.pc = "fetch", !.i = @ + 1, !.calls = <<>>]
    ELSE [tk EXCEPT !.pc = "done", !.calls = <<>>]

\* faulty variant: a pair that fails ends the whole loop
SkipPairAborts(tk) == [tk EXCEPT !.pc = "done", !.skipped = @ + 1, !.calls = <<>>]

\* the loop body ends for this pair without a send (`continue`, or the catch)
SkipPair(tk) == NextPair([tk EXCEPT !.skipped = @ + 1])

\* the call of a direct translate task returns v / throws
Finish(tk, how, v) ==
    [tk EXCEPT !.pc = "done", !.outcome = how, !.result = v, !.endedAt = now,
               !.endSeq = 1 + Cardinality({j \in 1..Len(tasks) : tasks[j].pc = "done"})]

\* the reaction handler returns
EndReaction(tk, how) == [tk EXCEPT !.pc = "done", !.outcome = how]

\* translate returns v to its caller, which runs on to its next await
Return(tk, v) ==
    CASE tk.kind = "message" ->
           \* `if (!translated) continue;` else build the embed and send it
           IF Truthy(v)
           THEN [tk EXCEPT !.pc = "send", !.translated = v]
           ELSE SkipPair(tk)
      [] tk.kind = "reaction" ->
           \* `if (!translated) return;` else build the embed and reply
           IF Truthy(v)
           THEN [tk EXCEPT !.pc = "reply", !.translated = v]
           ELSE EndReaction(tk, "noneed")
      [] OTHER -> Finish(tk, "return", v)

\* translate throws to its caller
Throw(tk) ==
    CASE tk.kind = "message" ->
           \* caught by the loop body's catch, which logs it
           SkipPair(tk)
      [] tk.kind = "reaction" ->
           \* caught by the handler's catch, which logs it
           EndReaction(tk, "failed")
      [] OTHER -> Finish(tk, "throw", Null)

(***************************************************************************)
(* Provider Chain: translate(text, sourceLang, targetLang)                 *)
(***************************************************************************)
\* const useDeepL = SERVICE_CAPABILITIES.deepl.includes(targetLang)
useDeepL(targetLang) == targetLang \in DeepLLangs

\* `if (myMemorySource === targetLang) return null`
SameLanguage(myMemorySource, targetLang) == myMemorySource = targetLang

\* the MyMemory branch (of the try block, or of the catch block when pc is
\* "fallback"): resolve the source, skip when it is the target, else call MyMemory
MyMemoryBranch(tk, pc) ==
    LET tk1 == IF tk.src = Auto THEN Log(tk, "detect") ELSE tk
        myMemorySource == IF tk.src = Auto THEN detectLanguage(tk.text) ELSE tk.src
    IN  IF SameLanguage(myMemorySource, tk.tgt)
        THEN Return(Log(tk1, "skip"), Null)
        ELSE [Log(tk1, "mymemory") EXCEPT !.pc = pc, !.mmSource = myMemorySource]

\* faulty variant: the catch block rethrows without trying MyMemory
CatchRethrows(tk) == Throw(tk)

\* catch (error) { if (useDeepL) <MyMemory> else throw error }
Catch(tk) ==
    IF useDeepL(tk.tgt) THEN MyMemoryBranch(tk, "fallback") ELSE Throw(tk)

\* faulty variant: DeepL is chosen whether or not a key is configured
DeepLChosenWithoutKey(targetLang, key) == useDeepL(targetLang)

\* `useDeepL && process.env.DEEPL_API_KEY`
DeepLChosen(targetLang, key) == useDeepL(targetLang) /\ key

\* translate up to its first await: the cache lookup and the choice of service
TranslateStart(tk) ==
    IF CacheHit(translationCache, CacheKey(tk.text, tk.src, tk.tgt), now)
    THEN Return(Log(tk, "cache"), translationCache[CacheKey(tk.text, tk.src, tk.tgt)].result)
    ELSE IF DeepLChosen(tk.tgt, deeplKey)
         THEN [Log(tk, "deepl") EXCEPT !.pc = "deepl"]
         ELSE MyMemoryBranch(tk, "mymemory")

\* a provider answered task `self` (now tk) with `result`: store it and return it
StoreAndReturn(self, tk, result) ==
    /\ translationCache' =
           CacheStore(translationCache, CacheKey(tk.text, tk.src, tk.tgt), result, now)
    /\ tasks' = [tasks EXCEPT ![self] = Return(tk, result)]

\* faulty variant: a failure inside the catch block enters the catch block again
FallbackFailedRetries(tk) == MyMemoryBranch(tk, "fallback")

\* translateWithMyMemory rejects inside the catch block: nothing catches it
FallbackFailed(tk) == Throw(tk)

\* the catch block runs in task `self` (now tk)
Caught(self, tk) ==
    /\ tasks' = [tasks EXCEPT ![self] = Catch(tk)]
    /\ UNCHANGED translationCache

\* the DeepL request of task `self` ends: with a translation, with a 2xx body that
\* has no translations[0].text, or with an error (timeout, non-2xx)
DeepLResponds(self, answer) ==
    LET tk == tasks[self] IN
    /\ tk.pc = "deepl"
    /\ CASE answer = "ok" ->
              StoreAndReturn(self, Log(tk, "deepl.ok"), DeepLText(tk.text, tk.src, tk.tgt))
         [] answer = "malformed" ->
              StoreAndReturn(self, Log(tk, "deepl.malformed"), Undefined)
         [] answer = "fail" ->
              Caught(self, Log(tk, "deepl.fail"))
    /\ UNCHANGED <<now, deeplKey, limiterVars, guardVars, pairVars, messages,
                   pendingEvents, sends>>

\* the MyMemory request of task `self` ends: responseStatus 200, or an error
MyMemoryResponds(self, answer) ==
    LET tk == tasks[self] IN
    /\ tk.pc \in {"mymemory", "fallback"}
    /\ CASE answer = "ok" ->
              StoreAndReturn(self, Log(tk, "mymemory.ok"),
                             MyMemoryText(tk.text, tk.mmSource, tk.tgt))
         [] answer = "fail" /\ tk.pc = "mymemory" ->
              Caught(self, Log(tk, "mymemory.fail"))
         [] answer = "fail" /\ tk.pc = "fallback" ->
              /\ tasks' = [tasks EXCEPT ![self] = FallbackFailed(Log(tk, "mymemory.fail"))]
              /\ UNCHANGED translationCache
    /\ UNCHANGED <<now, deeplKey, limiterVars, guardVars, pairVars, messages,
                   pendingEvents, sends>>

(***************************************************************************)
(* SpecTranslate: translate called directly, calls may overlap             *)
(***************************************************************************)
MaxCalls == 2
MaxOverlap == 3
MaxTranslateTicks == 1

Bon == <<98, 111, 110>>     \* "bon"
Privet == <<1087, 1088>>   \* two Cyrillic letters
Requests == {<<Bon, Fr, Fr>>, <<Bon, Auto, En>>, <<Bon, En, Hi>>, <<Privet, Auto, En>>}
TranslateSteps == {CACHE_TTL - 1, CACHE_TTL}

InitTranslateSpec ==
    /\ now = 1
    /\ InitLimiters /\ InitGuards /\ InitPairs /\ InitRelay
    /\ deeplKey \in BOOLEAN
    /\ translationCache = EmptyMap

CallTranslate(text, sourceLang, targetLang) ==
    /\ Len(tasks) < MaxCalls
    /\ tasks' = Append(tasks, TranslateStart(NewCall(text, sourceLang, targetLang)))
    /\ UNCHANGED <<now, translateVars, limiterVars, guardVars, pairVars, messages,
                   pendingEvents, sends>>

\* the clock; only differences of times matter, so it starts with the first call
TickTranslate ==
    \E d \in TranslateSteps :
        /\ tasks # <<>>
        /\ now + d <= 1 + MaxTranslateTicks * CACHE_TTL
        /\ now' = now + d
        /\ UNCHANGED <<limiterVars, guardVars, translateVars, pairVars, relayVars>>

NextTranslate ==
    \/ \E r \in Requests : CallTranslate(r[1], r[2], r[3])
    \/ \E self \in 1..Len(tasks), answer \in {"ok", "malformed", "fail"} :
           DeepLResponds(self, answer)
    \/ \E self \in 1..Len(tasks), answer \in {"ok", "fail"} : MyMemoryResponds(self, answer)
    \/ TickTranslate

SpecTranslate == InitTranslateSpec /\ [][NextTranslate]_vars

(***************************************************************************)
(* SpecOverlap: overlapping calls of translate for one and the same triple *)
(***************************************************************************)
OverlapRequests == {<<Privet, Auto, En>>}

CallTranslateAgain(text, sourceLang, targetLang) ==
    /\ Len(tasks) < MaxOverlap
    /\ tasks' = Append(tasks, TranslateStart(NewCall(text, sourceLang, targetLang)))
    /\ UNCHANGED <<now, translateVars, limiterVars, guardVars, pairVars, messages,
                   pendingEvents, sends>>

NextOverlap ==
    \/ \E r \in OverlapRequests : CallTranslateAgain(r[1], r[2], r[3])
    \/ \E self \in 1..Len(tasks), answer \in {"ok", "malformed", "fail"} :
           DeepLResponds(self, answer)
    \/ \E self \in 1..Len(tasks), answer \in {"ok", "fail"} : MyMemoryResponds(self, answer)
    \/ TickTranslate

SpecOverlap == InitTranslateSpec /\ [][NextOverlap]_vars

(***************************************************************************)
(* SpecSelection: calls of translate whose source tag DeepL does or does   *)
(* not list                                                                *)
(***************************************************************************)
SelectionRequests == {<<Bon, Hi, En>>, <<Bon, Fr, En>>, <<Bon, Auto, En>>, <<Bon, En, Hi>>}

NextSelection ==
    \/ \E r \in SelectionRequests : CallTranslate(r[1], r[2], r[3])
    \/ \E self \in 1..Len(tasks), answer \in {"ok", "malformed", "fail"} :
           DeepLResponds(self, answer)
    \/ \E self \in 1..Len(tasks), answer \in {"ok", "fail"} : MyMemoryResponds(self, answer)
    \/ TickTranslate

SpecSelection == InitTranslateSpec /\ [][NextSelection]_vars

(***************************************************************************)
(* Claims about translate                                                  *)
(***************************************************************************)
\* C6: translate with an explicit source tag equal to the target tag returns null
\* and invokes neither DeepL nor MyMemory, whatever credentials are configured.
C6_SameLanguageSkip ==
    \A j \in TaskIds :
        (tasks[j].kind = "translate" /\ tasks[j].src # Auto /\ tasks[j].src = tasks[j].tgt)
            => /\ ~Invoked(tasks[j], "deepl")
               /\ ~Invoked(tasks[j], "mymemory")
               /\ IsDone(tasks[j]) /\ tasks[j].outcome = "return" /\ tasks[j].result = Null

\* C7: a call whose DeepL request failed throws only if MyMemory failed too, and
\* when MyMemory then answers it returns MyMemory's text and no error.
C7_FallbackToMyMemory ==
    \A j \in TaskIds :
        Invoked(tasks[j], "deepl.fail") =>
            /\ (IsDone(tasks[j]) /\ tasks[j].outcome = "throw")
                   => Invoked(tasks[j], "mymemory.fail")
            /\ Invoked(tasks[j], "mymemory.ok")
                   => /\ IsDone(tasks[j]) /\ tasks[j].outcome = "return"
                      /\ tasks[j].result =
                             MyMemoryText(tasks[j].text, tasks[j].mmSource, tasks[j].tgt)

C7_Witness ==
    \E j \in TaskIds :
        /\ Invoked(tasks[j], "deepl.fail") /\ Invoked(tasks[j], "mymemory.ok")
        /\ tasks[j].outcome = "return" /\ Truthy(tasks[j].result)

\* C8 as claimed: a call made less than CACHE_TTL after a call for the same triple
\* returned a provider's text returns that same text and invokes nothing.
C8_WarmCacheSameResult ==
    \A c \in TaskIds : \A a \in tasks[c].warm :
        /\ tasks[c].calls = <<"cache">>
        /\ tasks[c].result = tasks[a].result

\* C8 amended: such a call invokes no provider and no detection and returns the
\* cached result, which is the result of the call for the triple that returned last.
C8_WarmCacheLatestResult ==
    \A c \in TaskIds :
        tasks[c].warm # {}
            => /\ tasks[c].calls = <<"cache">>
               /\ IsDone(tasks[c]) /\ tasks[c].outcome = "return"
               /\ tasks[c].latest # 0
               /\ tasks[c].result = tasks[tasks[c].latest].result

\* a warm call answered with the text of an overlapping call, not with a's, after
\* time has passed
C8_Witness ==
    \E c \in TaskIds : \E a \in tasks[c].warm :
        /\ tasks[c].calls = <<"cache">>
        /\ tasks[c].result # tasks[a].result
        /\ tasks[c].endedAt > tasks[a].endedAt

\* C9: a call that ends with the same-language null leaves that null in the
\* translation cache under the call's key.
C9_NullIsCached ==
    \A j \in TaskIds :
        (IsDone(tasks[j]) /\ Invoked(tasks[j], "skip"))
            => LET key == CacheKey(tasks[j].text, tasks[j].src, tasks[j].tgt) IN
               /\ key \in DOMAIN translationCache
               /\ translationCache[key].result = Null

\* C25: a call of translate is answered from the cache exactly when a call for its
\* triple has stored a result less than CACHE_TTL before; otherwise it goes to the
\* providers, and the entry of a triple carries the result and the time of the
\* call that stored last.
C25_CacheValidityWindow ==
    /\ \A j \in Calls :
           LET tk == tasks[j]
               fresh == tk.latest # 0 /\ tk.at - tasks[tk.latest].endedAt < CACHE_TTL
           IN  /\ Invoked(tk, "cache") <=> fresh
               /\ Invoked(tk, "cache") =>
                      tk.calls = <<"cache">> /\ tk.result = tasks[tk.latest].result
    /\ \A j \in Calls :
           LET tk == tasks[j]
               key == CacheKey(tk.text, tk.src, tk.tgt)
               last == LatestStoredNow(tk.text, tk.src, tk.tgt)
           IN  IF last = 0 THEN key \notin DOMAIN translationCache
               ELSE /\ key \in DOMAIN translationCache
                    /\ translationCache[key].timestamp = tasks[last].endedAt
                    /\ translationCache[key].result = tasks[last].result

\* a call made exactly CACHE_TTL after the entry of its triple was stored went to
\* a provider and its result replaced the entry
C25_Witness ==
    \E j \in Calls :
        LET tk == tasks[j] IN
        /\ tk.latest # 0 /\ tk.at - tasks[tk.latest].endedAt = CACHE_TTL
        /\ GotText(tk)
        /\ translationCache[CacheKey(tk.text, tk.src, tk.tgt)].timestamp = tk.endedAt
        /\ tk.endedAt > tasks[tk.latest].endedAt

(***************************************************************************)
(* Loop Guard: markTranslated(messageId)                                   *)
(***************************************************************************)
\* faulty variant: the id is not remembered
MarkAddNothing(recent, messageId) == recent

\* recentTranslations.add(messageId)
MarkAdd(recent, messageId) == recent \cup {messageId}

\* setTimeout(() => recentTranslations.delete(messageId), 30000)
MarkTimer(messageId, t) ==
    [fn |-> "recentTranslations.delete", id |-> messageId, due |-> t + RECENT_TTL]

\* two timers for one id with one due time do the same thing when they fire,
\* so the pending timers are kept as a set
markTranslated(messageId) ==
    /\ recentTranslations' = MarkAdd(recentTranslations, messageId)
    /\ timers' = timers \cup {MarkTimer(messageId, now)}
    /\ marks' = marks \cup {[id |-> messageId, at |-> now]}

\* a timer callback runs: never before its delay has passed
TimerFires(tm) ==
    /\ tm \in timers
    /\ tm.fn = "recentTranslations.delete"
    /\ now >= tm.due
    /\ timers' = timers \ {tm}
    /\ recentTranslations' = recentTranslations \ {tm.id}
    /\ UNCHANGED <<now, translateVars, limiterVars, messageTranslations, marks,
                   pairVars, relayVars>>

(***************************************************************************)
(* Message handler: client.on('messageCreate')                             *)
(***************************************************************************)
NoGuild == 0             \* message.guild of a direct message
BotUser == 9             \* client.user.id
OtherBot == 3            \* some other bot of the guild
ALLOWED_SERVERS == {}    \* process.env.ALLOWED_SERVERS is not set

\* faulty variant: the author is never taken for a bot
AuthorIsBotIgnored(message) == FALSE

\* message.author.bot
AuthorIsBot(message) == message.bot

\* faulty variant: the Loop Guard is not consulted
AlreadyRelayedNever(recent, messageId) == FALSE

\* recentTranslations.has(message.id)
AlreadyRelayed(recent, messageId) == messageId \in recent

\* the whitelist check
NotWhitelisted(guildId) == ALLOWED_SERVERS # {} /\ guildId \notin ALLOWED_SERVERS

getGuildPairs(guildId) ==
    IF guildId \in DOMAIN guildConfigs THEN guildConfigs[guildId].pairs ELSE <<>>

Reverse(seq) == [n \in 1..Len(seq) |-> seq[Len(seq) + 1 - n]]

\* faulty variant: the outgoing pairs are taken last to first
OutgoingPairsReversed(message) ==
    Reverse(SelectSeq(getGuildPairs(message.guild),
                      LAMBDA p : p.sourceChannel = message.channel))

\* getGuildPairs(message.guild.id).filter(p => p.sourceChannel === message.channel.id)
OutgoingPairs(message) ==
    SelectSeq(getGuildPairs(message.guild), LAMBDA p : p.sourceChannel = message.channel)

\* where the handler leaves, or "fanout" when it reaches the loop
Verdict(id, message) ==
    CASE AuthorIsBot(message) -> "bot"
      [] AlreadyRelayed(recentTranslations, id) -> "recent"
      [] message.guild = NoGuild -> "noguild"
      [] NotWhitelisted(message.guild) -> "whitelist"
      [] isRateLimited(rateLimits, message.author, message.channel, now) -> "limited"
      [] OutgoingPairs(message) = <<>> -> "nopairs"
      [] Trim(message.content) = <<>> /\ ~message.attachments -> "empty"
      [] OTHER -> "fanout"

\* faulty variant: the limiter is consulted after the pair lookup and the test of
\* the content
LimiterConsultedLate(verdict) == verdict \in {"limited", "fanout"}

\* the handler has called isRateLimited: it did not leave before
LimiterConsulted(verdict) == verdict \notin {"bot", "recent", "noguild", "whitelist"}

\* faulty variant: the rate-limit branch logs and does not return
ReachesLoopWhenLimited(verdict) == verdict \in {"fanout", "limited"}

\* the handler reaches markTranslated(message.id) and the loop over the pairs
ReachesLoop(verdict) == verdict = "fanout"

\* the handler runs for message `id` (now `message`) up to its first await
MessageCreate(id, message) ==
    LET verdict == Verdict(id, message) IN
    /\ lastCall' = [fn |-> "messageCreate", id |-> id, verdict |-> verdict]
    /\ rateLimits' = IF LimiterConsulted(verdict)
                     THEN RateLimitsAfter(rateLimits, message.author, message.channel, now)
                     ELSE rateLimits
    /\ IF ReachesLoop(verdict)
       THEN /\ markTranslated(id)
            /\ tasks' = Append(tasks,
                   NextPair([NewTask("message", Trim(message.content), <<>>, <<>>) EXCEPT
                                !.msg = id, !.at = now, !.pairs = OutgoingPairs(message)]))
       ELSE UNCHANGED <<recentTranslations, timers, marks, tasks>>

\* const targetChannel = await client.channels.fetch(pair.targetChannel).catch(() => null)
\* returns in task `self`; with a channel the loop body runs on to its next await
FetchResponds(self, found) ==
    LET tk == tasks[self]
        pair == tk.pairs[tk.i]
    IN
    /\ tk.kind = "message" /\ tk.pc = "fetch"
    /\ tasks' = [tasks EXCEPT ![self] =
           IF ~found THEN SkipPair(tk)
           ELSE IF tk.text # <<>>
                THEN TranslateStart([Log(tk, "fetch.ok") EXCEPT
                                        !.src = pair.sourceLang, !.tgt = pair.targetLang])
                ELSE [Log(tk, "fetch.ok") EXCEPT !.pc = "send", !.translated = EmptyString]]
    /\ UNCHANGED <<now, translateVars, limiterVars, guardVars, pairVars, messages,
                   pendingEvents, sends>>

\* the platform accepts targetChannel.send(...): the relayed message exists from
\* now on and its own messageCreate event is on its way to the bot; the embed is
\* not part of message.content
SendAccepted(self) ==
    LET tk == tasks[self]
        pair == tk.pairs[tk.i]
        id == Len(messages) + 1
    IN
    /\ tk.kind = "message" /\ tk.pc = "send"
    /\ Len(messages) < MaxMessages
    /\ messages' = Append(messages,
           [author |-> BotUser, bot |-> TRUE, channel |-> pair.targetChannel,
            guild |-> pair.guildId, content |-> <<>>, attachments |-> FALSE])
    /\ pendingEvents' = pendingEvents \cup {id}
    /\ sends' = Append(sends, [task |-> self, msg |-> tk.msg, channel |-> pair.targetChannel,
                               pair |-> pair.id, edge |-> tk.i, id |-> id,
                               returned |-> FALSE])
    /\ tasks' = [tasks EXCEPT ![self] = [Log(tk, "send") EXCEPT !.pc = "sent", !.sent = id]]
    /\ UNCHANGED <<now, translateVars, limiterVars, guardVars, pairVars>>

\* targetChannel.send(...) rejects: the catch of the loop body logs it
SendFails(self) ==
    LET tk == tasks[self] IN
    /\ tk.kind = "message" /\ tk.pc = "send"
    /\ tasks' = [tasks EXCEPT ![self] = Throw(Log(tk, "send.fail"))]
    /\ UNCHANGED <<now, translateVars, limiterVars, guardVars, pairVars, messages,
                   pendingEvents, sends>>

\* `await targetChannel.send(...)` returns in task `self`: markTranslated(sent.id)
SendReturns(self) ==
    LET tk == tasks[self] IN
    /\ tk.kind = "message" /\ tk.pc = "sent"
    /\ markTranslated(tk.sent)
    /\ sends' = [n \in 1..Len(sends) |->
                    IF sends[n].id = tk.sent THEN [sends[n] EXCEPT !.returned = TRUE]
                    ELSE sends[n]]
    /\ tasks' = [tasks EXCEPT ![self] = NextPair(tk)]
    /\ UNCHANGED <<now, translateVars, limiterVars, messageTranslations, pairVars,
                   messages, pendingEvents>>

(***************************************************************************)
(* SpecRelay: messages, edits and the relay's own messages in two channels *)
(* joined by a pair in each direction                                      *)
(***************************************************************************)
Hey == <<104, 101, 121>>   \* "hey"
RelayPairs ==
    << [id |-> <<0, 11, 12>>, guildId |-> 21, sourceChannel |-> 11, targetChannel |-> 12,
        sourceLang |-> En, targetLang |-> Es],
       [id |-> <<1, 12, 11>>, guildId |-> 21, sourceChannel |-> 12, targetChannel |-> 11,
        sourceLang |-> Es, targetLang |-> En] >>
Posts ==
    { [author |-> 1, bot |-> FALSE, channel |-> 11, guild |-> 21,
       content |-> Hey, attachments |-> FALSE],
      [author |-> OtherBot, bot |-> TRUE, channel |-> 11, guild |-> 21,
       content |-> Hey, attachments |-> FALSE] }
Edits == {Hey}
RelaySteps == {RECENT_TTL - 1}

InitRelaySpec ==
    /\ now = 1
    /\ InitLimiters /\ InitGuards /\ InitRelay
    /\ deeplKey = TRUE
    /\ translationCache = EmptyMap
    /\ guildConfigs = [g \in Guilds |-> [pairs |-> RelayPairs]]
    /\ reactionChannels = EmptyMap
    /\ reactionDb = {}
    /\ loads = <<>>
    /\ db = {} /\ dbOps = <<>> /\ replies = <<>>

\* somebody posts a message and its messageCreate event reaches the bot
MessagePosted(message) ==
    /\ Len(messages) < MaxMessages
    /\ Cardinality({id \in 1..Len(messages) : messages[id].author # BotUser}) < MaxPosts
    /\ Len(tasks) < MaxFanOuts
    /\ messages' = Append(messages, message)
    /\ MessageCreate(Len(messages) + 1, message)
    /\ UNCHANGED <<now, translateVars, reactionLimits, admits, winAdmits,
                   messageTranslations, pairVars, pendingEvents, sends>>

\* the messageCreate event of a message the relay sent reaches the bot
RelayedMessageArrives(id) ==
    /\ id \in pendingEvents
    /\ Len(tasks) < MaxFanOuts
    /\ pendingEvents' = pendingEvents \ {id}
    /\ MessageCreate(id, messages[id])
    /\ UNCHANGED <<now, translateVars, reactionLimits, admits, winAdmits,
                   messageTranslations, pairVars, messages, sends>>

\* faulty variant: every update is passed on to the messageCreate listener
UpdateIgnoredNever(newMsg) == FALSE

\* `if (newMsg.author?.bot) return; if (!newMsg.guild || !newMsg.content) return;`
UpdateIgnored(newMsg) ==
    AuthorIsBot(newMsg) \/ newMsg.guild = NoGuild \/ newMsg.content = <<>>

\* client.on('messageUpdate'): the author edits message `id`; the handler emits
\* messageCreate, whose listener runs before emit returns
MessageUpdate(id, content) ==
    LET newMsg == [messages[id] EXCEPT !.content = content] IN
    /\ messages[id].author # BotUser
    /\ Len(tasks) < MaxFanOuts
    /\ messages' = [messages EXCEPT ![id] = newMsg]
    /\ IF UpdateIgnored(newMsg)
       THEN /\ lastCall' = [fn |-> "messageUpdate", id |-> id, verdict |-> "ignored"]
            /\ UNCHANGED <<rateLimits, recentTranslations, timers, marks, tasks>>
       ELSE MessageCreate(id, newMsg)
    /\ UNCHANGED <<now, translateVars, reactionLimits, admits, winAdmits,
                   messageTranslations, pairVars, pendingEvents, sends>>

TickRelay ==
    \E d \in RelaySteps :
        /\ messages # <<>>
        /\ now + d <= 1 + MaxRelayTicks * RECENT_TTL
        /\ now' = now + d
        /\ UNCHANGED <<limiterVars, guardVars, translateVars, pairVars, relayVars>>

NextRelay ==
    \/ \E message \in Posts : MessagePosted(message)
    \/ \E id \in pendingEvents : RelayedMessageArrives(id)
    \/ \E id \in 1..Len(messages), content \in Edits : MessageUpdate(id, content)
    \/ \E self \in 1..Len(tasks), found \in BOOLEAN : FetchResponds(self, found)
    \/ \E self \in 1..Len(tasks), answer \in {"ok", "fail"} : DeepLResponds(self, answer)
    \/ \E self \in 1..Len(tasks), answer \in {"ok", "fail"} : MyMemoryResponds(self, answer)
    \/ \E self \in 1..Len(tasks) : SendAccepted(self)
    \/ \E self \in 1..Len(tasks) : SendFails(self)
    \/ \E self \in 1..Len(tasks) : SendReturns(self)
    \/ \E tm \in timers : TimerFires(tm)
    \/ TickRelay

SpecRelay == InitRelaySpec /\ [][NextRelay]_vars

(***************************************************************************)
(* Claims about the relay                                                  *)
(***************************************************************************)
FanOuts == {j \in TaskIds : tasks[j].kind = "message"}
SendsOf(j) == {n \in 1..Len(sends) : sends[n].task = j}

\* C1: an id marked at time t is in recentTranslations at every moment before
\* t + RECENT_TTL, and while an id is in recentTranslations the timer that removes
\* it is pending and due RECENT_TTL after a mark of that id, so the id is
\* forgotten once the timer service runs it.
C1_LoopGuardLifetime ==
    /\ \A m \in marks : now < m.at + RECENT_TTL => m.id \in recentTranslations
    /\ \A id \in recentTranslations :
           \E tm \in timers, m \in marks :
               tm.id = id /\ m.id = id /\ tm.due = m.at + RECENT_TTL

\* the id of a message was marked, forgotten after expiry, and a later delivery
\* of the same message was admitted again
C1_Witness ==
    \E j, k \in FanOuts :
        /\ j < k /\ tasks[j].msg = tasks[k].msg
        /\ tasks[k].at >= tasks[j].at + RECENT_TTL

\* C2: a fan-out for a member's message in channel 11 whose every step succeeded
\* has sent exactly one message, to channel 12, and no fan-out sends more than
\* one; the id of a sent message is in recentTranslations once send has returned
\* (for RECENT_TTL); and no fan-out ever starts for a message written by a bot,
\* in particular not for a message the relay sent, whenever its event arrives.
C2_RelayWithoutFeedback ==
    /\ \A j \in FanOuts :
           /\ \A ch \in Channels :
                  Cardinality({n \in SendsOf(j) : sends[n].channel = ch}) <=
                      IF ch = messages[tasks[j].msg].channel THEN 0 ELSE 1
           /\ (IsDone(tasks[j]) /\ tasks[j].skipped = 0 /\ messages[tasks[j].msg].channel = 11)
                  => \E n \in SendsOf(j) : sends[n].channel = 12
           /\ ~messages[tasks[j].msg].bot
    /\ \A n \in 1..Len(sends) :
           /\ sends[n].returned =>
                  \E m \in marks :
                      /\ m.id = sends[n].id
                      /\ now < m.at + RECENT_TTL => sends[n].id \in recentTranslations
           /\ \A j \in FanOuts : tasks[j].msg # sends[n].id

\* the event of a relayed message was delivered before the send call returned,
\* the handler left at the bot check, and the send then returned
C2_Witness ==
    \E n \in 1..Len(sends) :
        /\ sends[n].channel = 12 /\ sends[n].returned
        /\ sends[n].id \notin pendingEvents
        /\ \E m \in marks : m.id = sends[n].id
        /\ lastCall.fn = "messageCreate" /\ lastCall.id = sends[n].id
        /\ lastCall.verdict = "bot"
        /\ IsDone(tasks[sends[n].task])

\* C3: two fan-outs for one message id start at least RECENT_TTL apart.
C3_MarkBeforeAwait ==
    \A j, k \in FanOuts :
        (j < k /\ tasks[j].msg = tasks[k].msg)
            => tasks[k].at - tasks[j].at >= RECENT_TTL

\* a fan-out waits at its first await (the fetch of the first pair's target
\* channel) and a second delivery of the same message, by a messageUpdate, has
\* just been dropped at the Loop Guard
C3_Witness ==
    \E j \in FanOuts :
        /\ tasks[j].pc = "fetch" /\ tasks[j].i = 1
        /\ lastCall.fn = "messageCreate" /\ lastCall.id = tasks[j].msg
        /\ lastCall.verdict = "recent"

(***************************************************************************)
(* Pair graph: the add, remove and clear commands of interactionCreate     *)
(***************************************************************************)
SupabaseConfigured == TRUE   \* SUPABASE_URL and SUPABASE_KEY are set

\* String.prototype.toLowerCase over the code units of a language tag
toLowerCase(str) ==
    [n \in 1..Len(str) |-> IF str[n] \in 65..90 THEN str[n] + 32 ELSE str[n]]

configPairs(configs, guildId) ==
    IF guildId \in DOMAIN configs THEN configs[guildId].pairs ELSE <<>>

\* `${Date.now()}_${source.id}_${target.id}`
PairId(t, sourceId, targetId) == <<t, sourceId, targetId>>

NewPair(t, guildId, sourceId, targetId, sourceLang, targetLang) ==
    [id |-> PairId(t, sourceId, targetId), guildId |-> guildId,
     sourceChannel |-> sourceId, targetChannel |-> targetId,
     sourceLang |-> sourceLang, targetLang |-> targetLang]

\* faulty variant: the channels are not compared
SameChannelAllowed(sourceId, targetId) == FALSE

\* source.id === target.id
SameChannel(sourceId, targetId) == sourceId = targetId

\* faulty variant: an existing edge is never seen
pairExistsNever(pairs, a, b) == FALSE

\* config.pairs.some(p => p.sourceChannel === a && p.targetChannel === b)
pairExists(pairs, a, b) ==
    \E n \in 1..Len(pairs) : pairs[n].sourceChannel = a /\ pairs[n].targetChannel = b

\* the pairs the add command creates
newPairs(pairs, t, guildId, sourceId, targetId, sourceLang, targetLang, bidirectional) ==
    <<NewPair(t, guildId, sourceId, targetId, sourceLang, targetLang)>> \o
    IF bidirectional /\ ~pairExists(pairs, targetId, sourceId)
    THEN <<NewPair(t + 1, guildId, targetId, sourceId, targetLang, sourceLang)>>
    ELSE <<>>

\* faulty variant: the tags are not compared
SameLanguageTagsAllowed(sourceLang, targetLang) == FALSE

\* sourceLang === targetLang && sourceLang !== 'auto'
SameLanguageTags(sourceLang, targetLang) == sourceLang = targetLang /\ sourceLang # Auto

\* where the add command leaves, or "create"
AddVerdict(configs, admin, guildId, sourceId, targetId, sourceLang, targetLang) ==
    CASE NotWhitelisted(guildId) -> "private"
      [] ~admin -> "admin only"
      [] SameChannel(sourceId, targetId) -> "same channel"
      [] SameLanguageTags(sourceLang, targetLang) -> "same language"
      [] targetLang = Auto -> "target auto"
      [] pairExists(configPairs(configs, guildId), sourceId, targetId) -> "exists"
      [] OTHER -> "create"

\* a persistence request leaves: upsertPairs and deletePairs return at once
\* without Supabase or without rows
Request(ops, op) ==
    IF SupabaseConfigured /\ Len(op.rows) > 0 THEN Append(ops, op) ELSE ops

\* interaction.reply(...)
Reply(text) == Append(replies, text)

\* the commands received so far: each has replied or awaits its request
Commands == Len(replies) + Cardinality({n \in 1..Len(dbOps) : dbOps[n].awaited})

\* /add up to `await upsertPairs(guildId, newPairs)`
Add(admin, guildId, sourceId, targetId, rawSourceLang, rawTargetLang, bidirectional) ==
    LET sourceLang == toLowerCase(rawSourceLang)
        targetLang == toLowerCase(rawTargetLang)
        verdict == AddVerdict(guildConfigs, admin, guildId, sourceId, targetId,
                              sourceLang, targetLang)
        old == configPairs(guildConfigs, guildId)
        new == newPairs(old, now, guildId, sourceId, targetId, sourceLang, targetLang,
                        bidirectional)
        op == [op |-> "upsert", rows |-> new, awaited |-> TRUE, reply |-> "created"]
        \* `if (!guildConfigs.has(guildId)) guildConfigs.set(guildId, { pairs: [] })`
        withConfig == IF guildId \in DOMAIN guildConfigs THEN guildConfigs
                      ELSE Put(guildConfigs, guildId, [pairs |-> <<>>])
        ops == IF verdict = "create" THEN Request(dbOps, op) ELSE dbOps
    IN
    /\ Commands < MaxCommands
    /\ guildConfigs' =
           CASE verdict = "create" -> Put(withConfig, guildId, [pairs |-> old \o new])
             [] verdict = "exists" -> withConfig
             [] OTHER -> guildConfigs
    /\ dbOps' = ops
    /\ replies' = IF ops # dbOps THEN replies
                  ELSE Reply(IF verdict = "create" THEN "created" ELSE verdict)
    /\ lastCall' = [fn |-> "add", admin |-> admin, source |-> sourceId, target |-> targetId,
                    verdict |-> verdict,
                    mutated |-> guildConfigs' # guildConfigs \/ ops # dbOps]
    /\ UNCHANGED <<now, translateVars, rateLimits, reactionLimits, admits, winAdmits,
                   guardVars, reactionChannels, reactionDb, loads, db, relayVars>>

\* faulty variant: the first pair is taken whatever its id
findIndexFirst(pairs, pairIdInput) == IF pairs = <<>> THEN 0 ELSE 1

\* config.pairs.findIndex(p => p.id === pairIdInput), 0 for -1
findIndex(pairs, pairIdInput) ==
    IF \E n \in 1..Len(pairs) : pairs[n].id = pairIdInput
    THEN CHOOSE n \in 1..Len(pairs) :
             /\ pairs[n].id = pairIdInput
             /\ \A m \in 1..(n - 1) : pairs[m].id # pairIdInput
    ELSE 0

\* faulty variant: splice(pairIndex) without a count removes the rest of the list
spliceRest(pairs, pairIndex) == SubSeq(pairs, 1, pairIndex - 1)

\* config.pairs.splice(pairIndex, 1)
splice(pairs, pairIndex) ==
    SubSeq(pairs, 1, pairIndex - 1) \o SubSeq(pairs, pairIndex + 1, Len(pairs))

RemoveVerdict(configs, admin, guildId, pairIdInput) ==
    CASE NotWhitelisted(guildId) -> "private"
      [] ~admin -> "admin only"
      [] configPairs(configs, guildId) = <<>> -> "no pairs"
      [] findIndex(configPairs(configs, guildId), pairIdInput) = 0 -> "not found"
      [] OTHER -> "remove"

\* /remove up to `await deletePairs(guildId, [removedPair.id])`
Remove(admin, guildId, pairIdInput) ==
    LET verdict == RemoveVerdict(guildConfigs, admin, guildId, pairIdInput)
        old == configPairs(guildConfigs, guildId)
        op == [op |-> "delete", rows |-> <<pairIdInput>>, awaited |-> TRUE,
               reply |-> "removed"]
        ops == IF verdict = "remove" THEN Request(dbOps, op) ELSE dbOps
    IN
    /\ Commands < MaxCommands
    /\ guildConfigs' =
           IF verdict = "remove"
           THEN Put(guildConfigs, guildId, [pairs |-> splice(old, findIndex(old, pairIdInput))])
           ELSE guildConfigs
    /\ dbOps' = ops
    /\ replies' = IF ops # dbOps THEN replies
                  ELSE Reply(IF verdict = "remove" THEN "removed" ELSE verdict)
    /\ lastCall' = [fn |-> "remove", admin |-> admin, guild |-> guildId, id |-> pairIdInput,
                    found |-> \E n \in 1..Len(old) : old[n].id = pairIdInput,
                    verdict |-> verdict,
                    mutated |-> guildConfigs' # guildConfigs \/ ops # dbOps]
    /\ UNCHANGED <<now, translateVars, rateLimits, reactionLimits, admits, winAdmits,
                   guardVars, reactionChannels, reactionDb, loads, db, relayVars>>

\* /clear: deletePairs is started and not awaited
Clear(admin, guildId) ==
    LET old == configPairs(guildConfigs, guildId)
        verdict == CASE NotWhitelisted(guildId) -> "private"
                     [] ~admin -> "admin only"
                     [] old = <<>> -> "no pairs"
                     [] OTHER -> "clear"
        op == [op |-> "delete", rows |-> [n \in 1..Len(old) |-> old[n].id],
               awaited |-> FALSE, reply |-> None]
        ops == IF verdict = "clear" THEN Request(dbOps, op) ELSE dbOps
    IN
    /\ Commands < MaxCommands
    /\ guildConfigs' = IF verdict = "clear"
                       THEN Put(guildConfigs, guildId, [pairs |-> <<>>])
                       ELSE guildConfigs
    /\ dbOps' = ops
    /\ replies' = Reply(IF verdict = "clear" THEN "cleared" ELSE verdict)
    /\ lastCall' = [fn |-> "clear", admin |-> admin, verdict |-> verdict,
                    mutated |-> guildConfigs' # guildConfigs \/ ops # dbOps]
    /\ UNCHANGED <<now, translateVars, rateLimits, reactionLimits, admits, winAdmits,
                   guardVars, reactionChannels, reactionDb, loads, db, relayVars>>

\* faulty variant: the error of the request escapes upsertPairs / deletePairs and
\* the catch of the command handler replies
SettledReplyOnError(op, ok) == IF ok THEN op.reply ELSE "error"

\* what the command that awaited `op` replies when upsertPairs / deletePairs
\* returns: they catch and log the error of the request
SettledReply(op, ok) == op.reply

\* request `n` leaves the list of requests in flight; a command that awaited it replies
Settle(n, ok) ==
    /\ dbOps' = SubSeq(dbOps, 1, n - 1) \o SubSeq(dbOps, n + 1, Len(dbOps))
    /\ replies' = IF dbOps[n].awaited THEN Reply(SettledReply(dbOps[n], ok)) ELSE replies

\* the POST of upsertPairs ends: rows with a known id are replaced
\* (resolution=merge-duplicates); an error is caught and logged by upsertPairs
UpsertResponds(n, ok) ==
    LET rows == {dbOps[n].rows[m] : m \in 1..Len(dbOps[n].rows)} IN
    /\ dbOps[n].op = "upsert"
    /\ db' = IF ok THEN {r \in db : \A new \in rows : new.id # r.id} \cup rows ELSE db
    /\ Settle(n, ok)
    /\ UNCHANGED <<now, translateVars, limiterVars, guardVars, guildConfigs, reactionChannels,
                   reactionDb, loads, relayVars>>

\* a DELETE of the loop of deletePairs ends: the loop goes on to the next id, or an
\* error ends the loop in the catch of deletePairs
DeleteResponds(n, ok) ==
    LET ids == dbOps[n].rows IN
    /\ dbOps[n].op = "delete"
    /\ db' = IF ok THEN {r \in db : r.id # Head(ids)} ELSE db
    /\ IF ok /\ Len(ids) > 1
       THEN /\ dbOps' = [dbOps EXCEPT ![n].rows = Tail(ids)]
            /\ UNCHANGED replies
       ELSE Settle(n, ok)
    /\ UNCHANGED <<now, translateVars, limiterVars, guardVars, guildConfigs, reactionChannels,
                   reactionDb, loads, relayVars>>

(***************************************************************************)
(* SpecPairs: administrators and members run add, remove and clear         *)
(***************************************************************************)
EnUpper == <<69, 78>>      \* "EN"
LangInputs == {<<EnUpper, Es>>, <<Auto, Es>>, <<Es, Es>>, <<Es, Auto>>}
UnknownId == PairId(0, 11, 12)

InitPairsSpec ==
    /\ now = 1
    /\ InitLimiters /\ InitGuards /\ InitTranslate /\ InitPairs /\ InitRelay

TickPairs ==
    /\ now + 1 <= 1 + MaxPairTicks
    /\ now' = now + 1
    /\ UNCHANGED <<limiterVars, guardVars, translateVars, pairVars, relayVars>>

NextPairs ==
    \/ \E admin \in BOOLEAN, sourceId \in Channels, targetId \in Channels,
          langs \in LangInputs, bidirectional \in BOOLEAN :
           Add(admin, 21, sourceId, targetId, langs[1], langs[2], bidirectional)
    \/ \E admin \in BOOLEAN,
          pairIdInput \in {UnknownId} \cup
              {configPairs(guildConfigs, 21)[n].id : n \in 1..Len(configPairs(guildConfigs, 21))} :
           Remove(admin, 21, pairIdInput)
    \/ \E admin \in BOOLEAN : Clear(admin, 21)
    \/ \E n \in 1..Len(dbOps), ok \in BOOLEAN : UpsertResponds(n, ok)
    \/ \E n \in 1..Len(dbOps), ok \in BOOLEAN : DeleteResponds(n, ok)
    \/ TickPairs

SpecPairs == InitPairsSpec /\ [][NextPairs]_vars

PairsOf(rows) == {rows[n] : n \in 1..Len(rows)}
PairsInMemory == UNION {PairsOf(guildConfigs[g].pairs) : g \in DOMAIN guildConfigs}
PairsInFlight ==
    UNION {PairsOf(dbOps[n].rows) : n \in {m \in 1..Len(dbOps) : dbOps[m].op = "upsert"}}

\* C10: no pair in guildConfigs, in a request to the persistence service or in
\* its table joins a channel to itself, and an add command whose source and target
\* are one channel leaves guildConfigs and the requests as they were; an
\* administrator is told that the channels are the same.
C10_SelfEdgeRejected ==
    /\ \A p \in PairsInMemory \cup PairsInFlight \cup db : p.sourceChannel # p.targetChannel
    /\ (lastCall.fn = "add" /\ lastCall.source = lastCall.target)
           => /\ ~lastCall.mutated
              /\ lastCall.admin => lastCall.verdict = "same channel"

\* an administrator asked for a pair from a channel to itself while the guild had
\* pairs and a request was in flight
C10_Witness ==
    /\ lastCall.fn = "add" /\ lastCall.source = lastCall.target /\ lastCall.admin
    /\ lastCall.verdict = "same channel"
    /\ PairsInMemory # {} /\ dbOps # <<>>

\* C11: a guild's pair list never holds two pairs with the same source and target
\* channel, and an add command that finds its forward edge in the list leaves
\* guildConfigs and the persistence requests as they were.
C11_EdgeUniqueness ==
    /\ \A g \in DOMAIN guildConfigs :
           \A n, m \in 1..Len(guildConfigs[g].pairs) :
               (/\ guildConfigs[g].pairs[n].sourceChannel = guildConfigs[g].pairs[m].sourceChannel
                /\ guildConfigs[g].pairs[n].targetChannel = guildConfigs[g].pairs[m].targetChannel)
                   => n = m
    /\ (lastCall.fn = "add" /\ lastCall.verdict = "exists") => ~lastCall.mutated

\* both directions are in the list, the reverse one made by a bidirectional add,
\* and an add of an edge that exists has just been rejected
C11_Witness ==
    /\ lastCall.fn = "add" /\ lastCall.verdict = "exists"
    /\ \E p, q \in PairsInMemory :
           /\ p.sourceChannel = q.targetChannel /\ p.targetChannel = q.sourceChannel
           /\ q.id[1] = p.id[1] + 1

\* C12: no pair of a guild's pair list has the target tag `auto`, the reverse
\* pair of a bidirectional add included.
C12_TargetNeverAuto ==
    \A p \in PairsInMemory : p.targetLang # Auto

\* C13: every pair in a pair list, in a request to the persistence service or in
\* its table has a source tag different from its target tag, or the source tag
\* `auto`.
C13_LanguageDistinctness ==
    \A p \in PairsInMemory \cup PairsInFlight \cup db :
        p.sourceLang # p.targetLang \/ p.sourceLang = Auto

\* a bidirectional add made a reverse pair by swapping two explicit tags, and an
\* add with equal tags (after lower-casing) has just been rejected
C13_Witness ==
    /\ lastCall.fn = "add" /\ lastCall.verdict = "same language"
    /\ \E p, q \in PairsInMemory :
           /\ q.id[1] = p.id[1] + 1
           /\ q.sourceLang = p.targetLang /\ q.targetLang = p.sourceLang
           /\ p.sourceLang = En

\* C22: a request of upsertPairs or deletePairs that fails or times out leaves the
\* pair lists in memory as the command left them, and the command that awaited it
\* replies as on success; a clear has replied before.
C22_PersistenceFailureSilent ==
    [][\A n \in 1..Len(dbOps) :
          (UpsertResponds(n, FALSE) \/ DeleteResponds(n, FALSE)) =>
              /\ guildConfigs' = guildConfigs
              /\ replies' = IF ~dbOps[n].awaited THEN replies
                            ELSE Append(replies, IF dbOps[n].op = "upsert" THEN "created"
                                                 ELSE "removed")]_vars

\* a pair is in memory and not in the table, no request is in flight, and the add
\* has replied that it created the pair
C22_Witness ==
    /\ dbOps = <<>>
    /\ PairsInMemory # {} /\ PairsInMemory \cap db = {}
    /\ replies # <<>> /\ replies[Len(replies)] = "created"

(***************************************************************************)
(* SpecGuilds: the commands in a guild while another guild has a pair that *)
(* was loaded at start-up                                                  *)
(***************************************************************************)
OtherGuild == 22
OtherPair == NewPair(0, OtherGuild, 31, 32, En, Es)
AllPairIds == {p.id : p \in PairsInMemory}

InitGuildsSpec ==
    /\ now = 1
    /\ InitLimiters /\ InitGuards /\ InitTranslate /\ InitRelay
    /\ guildConfigs = [g \in {OtherGuild} |-> [pairs |-> <<OtherPair>>]]
    /\ reactionChannels = EmptyMap
    /\ reactionDb = {}
    /\ loads = <<>>
    /\ db = {OtherPair}
    /\ dbOps = <<>>
    /\ replies = <<>>

NextGuilds ==
    \/ \E sourceId \in Channels, bidirectional \in BOOLEAN :
           Add(TRUE, 21, sourceId, 12, EnUpper, Es, bidirectional)
    \/ \E admin \in BOOLEAN, guildId \in {21, OtherGuild},
          pairIdInput \in {UnknownId} \cup AllPairIds :
           Remove(admin, guildId, pairIdInput)
    \/ \E guildId \in {21, OtherGuild} : Clear(TRUE, guildId)
    \/ \E n \in 1..Len(dbOps), ok \in BOOLEAN : UpsertResponds(n, ok)
    \/ \E n \in 1..Len(dbOps), ok \in BOOLEAN : DeleteResponds(n, ok)
    \/ TickPairs

SpecGuilds == InitGuildsSpec /\ [][NextGuilds]_vars

\* C14: a remove command whose pair id is the id of no pair of the guild leaves
\* every guild's pair list and the persistence requests as they were, and an
\* administrator is told that the id was not found, or that the guild has no
\* pairs when its list is empty.
C14_RemoveUnknownId ==
    (lastCall.fn = "remove" /\ ~lastCall.found)
        => /\ ~lastCall.mutated
           /\ lastCall.admin => lastCall.verdict \in {"not found", "no pairs"}

\* an administrator asked a guild that has a pair to remove the id of another
\* guild's pair
C14_Witness ==
    /\ lastCall.fn = "remove" /\ lastCall.admin /\ lastCall.guild = 21
    /\ lastCall.id = OtherPair.id /\ lastCall.verdict = "not found"
    /\ configPairs(guildConfigs, 21) # <<>>
    /\ configPairs(guildConfigs, OtherGuild) = <<OtherPair>>
    /\ OtherPair \in db

(***************************************************************************)
(* SpecFanOut: a message in a channel with two outgoing pairs              *)
(***************************************************************************)
FanOutPairs ==
    << NewPair(0, 21, 11, 12, En, Es), NewPair(1, 21, 12, 11, Es, En),
       NewPair(2, 21, 11, 13, En, Fr) >>
FanOutPosts ==
    { [author |-> u, bot |-> FALSE, channel |-> 11, guild |-> 21,
       content |-> Hey, attachments |-> FALSE] : u \in Users }

InitFanOutSpec ==
    /\ now = 1
    /\ InitLimiters /\ InitGuards /\ InitRelay
    /\ deeplKey = TRUE
    /\ translationCache = EmptyMap
    /\ guildConfigs = [g \in Guilds |-> [pairs |-> FanOutPairs]]
    /\ reactionChannels = EmptyMap
    /\ reactionDb = {}
    /\ loads = <<>>
    /\ db = {} /\ dbOps = <<>> /\ replies = <<>>

NextFanOut ==
    \/ \E message \in FanOutPosts : MessagePosted(message)
    \/ \E id \in pendingEvents : RelayedMessageArrives(id)
    \/ \E self \in 1..Len(tasks), found \in BOOLEAN : FetchResponds(self, found)
    \/ \E self \in 1..Len(tasks), answer \in {"ok", "malformed", "fail"} :
           DeepLResponds(self, answer)
    \/ \E self \in 1..Len(tasks), answer \in {"ok", "fail"} : MyMemoryResponds(self, answer)
    \/ \E self \in 1..Len(tasks) : SendAccepted(self)
    \/ \E self \in 1..Len(tasks) : SendFails(self)
    \/ \E self \in 1..Len(tasks) : SendReturns(self)

SpecFanOut == InitFanOutSpec /\ [][NextFanOut]_vars

Returned(j) == {n \in SendsOf(j) : sends[n].returned}
PositionOf(pairs, id) == CHOOSE n \in 1..Len(pairs) : pairs[n].id = id

\* C15: every outgoing pair of a fan-out ends with a send or is skipped, one after
\* the other: the fan-out is at pair number (sends returned + pairs skipped + 1)
\* until it has gone through all of them, no pair is sent twice, and the handler
\* never ends by throwing.
C15_SiblingIsolation ==
    \A j \in FanOuts :
        /\ tasks[j].outcome = "pending"
        /\ \A n, m \in SendsOf(j) : sends[n].edge = sends[m].edge => n = m
        /\ IF IsDone(tasks[j])
           THEN Cardinality(Returned(j)) + tasks[j].skipped = Len(tasks[j].pairs)
           ELSE tasks[j].i = Cardinality(Returned(j)) + tasks[j].skipped + 1

\* the first pair failed and the second pair's message was sent
C15_Witness ==
    \E j \in FanOuts :
        /\ IsDone(tasks[j]) /\ tasks[j].skipped = 1 /\ Len(tasks[j].pairs) = 2
        /\ \E n \in Returned(j) : sends[n].edge = 2 /\ sends[n].channel = 13

\* C16: the sends of one fan-out follow the order of the guild's pair list, a
\* send has returned before the fan-out is at a later pair, and no send belongs
\* to a pair the fan-out has not reached yet.
C16_EdgeOrdering ==
    \A j \in FanOuts :
        /\ \A n, m \in SendsOf(j) :
               n < m => /\ sends[n].returned
                        /\ PositionOf(getGuildPairs(21), sends[n].pair) <
                               PositionOf(getGuildPairs(21), sends[m].pair)
        /\ \A n \in SendsOf(j) :
               /\ sends[n].edge <= tasks[j].i
               /\ (sends[n].edge < tasks[j].i \/ IsDone(tasks[j])) => sends[n].returned
               /\ ~sends[n].returned => tasks[j].pc = "sent"

\* both sends of a fan-out have returned, channel 12 first
C16_Witness ==
    \E j \in FanOuts :
        /\ IsDone(tasks[j])
        /\ \E n, m \in Returned(j) :
               n < m /\ sends[n].channel = 12 /\ sends[m].channel = 13

(***************************************************************************)
(* Claims about the choice of provider                                     *)
(***************************************************************************)

\* C17: a call of translate throws only after MyMemory has failed, after DeepL
\* has failed too if DeepL was called, and never once a provider has answered;
\* without a DeepL key DeepL is not called.
C17_ExhaustionOnly ==
    \A j \in Calls :
        /\ ~deeplKey => ~Invoked(tasks[j], "deepl")
        /\ Threw(tasks[j]) =>
               /\ tasks[j].calls[Len(tasks[j].calls)] = "mymemory.fail"
               /\ Invoked(tasks[j], "deepl") => Invoked(tasks[j], "deepl.fail")
               /\ ~Invoked(tasks[j], "deepl.ok") /\ ~Invoked(tasks[j], "mymemory.ok")
               /\ ~Invoked(tasks[j], "deepl.malformed")

\* without a key a call for a target DeepL supports went to MyMemory, twice, and
\* threw when both requests had failed
C17_Witness ==
    /\ ~deeplKey
    /\ \E j \in Calls :
           /\ Threw(tasks[j]) /\ useDeepL(tasks[j].tgt)
           /\ Times(tasks[j], "mymemory.fail") = 2

\* C18: a call whose DeepL answer lacks translations[0].text goes on to MyMemory
\* and neither returns nor caches the missing text.
C18_MalformedIsFailure ==
    \A j \in Calls :
        Invoked(tasks[j], "deepl.malformed") =>
            /\ Invoked(tasks[j], "mymemory")
            /\ tasks[j].result # Undefined
            /\ \A k \in DOMAIN translationCache : translationCache[k].result # Undefined

\* C19: DeepL is called only for a target tag of its list and, when the source is
\* not `auto`, a source tag of its list.
C19_ProviderSelection ==
    \A j \in Calls :
        Invoked(tasks[j], "deepl") =>
            /\ tasks[j].tgt \in DeepLLangs
            /\ tasks[j].src # Auto => tasks[j].src \in DeepLLangs

AfterDetect(tk) ==
    {tk.calls[n + 1] : n \in {m \in 1..(Len(tk.calls) - 1) : tk.calls[m] = "detect"}}
DetectIsLast(tk) == tk.calls # <<>> /\ tk.calls[Len(tk.calls)] = "detect"

\* what C20 says of DeepL: with the source `auto` no detection precedes the DeepL
\* call and DeepL's answer is for an undeclared source; a call DeepL answered has
\* run no detection
AutoPassThrough(tk) ==
    /\ (tk.src = Auto /\ Invoked(tk, "deepl")) => tk.calls[1] = "deepl"
    /\ (tk.src = Auto /\ Invoked(tk, "deepl.ok")) => tk.result.from = Auto
    /\ Invoked(tk, "deepl.ok") => ~Invoked(tk, "detect")

\* C20 as claimed: AutoPassThrough, and every detection is followed at once by a
\* MyMemory call.
C20_DetectOnlyBeforeMyMemory ==
    \A j \in Calls :
        /\ AutoPassThrough(tasks[j])
        /\ ~DetectIsLast(tasks[j])
        /\ AfterDetect(tasks[j]) \subseteq {"mymemory"}

\* C20 amended: AutoPassThrough, and every detection is followed at once by a
\* MyMemory call or by the same-language return that takes its place.
C20_DetectOnlyInMyMemoryBranch ==
    \A j \in Calls :
        /\ AutoPassThrough(tasks[j])
        /\ ~DetectIsLast(tasks[j])
        /\ AfterDetect(tasks[j]) \subseteq {"mymemory", "skip"}
        /\ tasks[j].src # Auto => ~Invoked(tasks[j], "detect")

\* DeepL was called with the source `auto` and failed; the detection of the
\* fallback found the target language and the call returned null without MyMemory
C20_Witness ==
    \E j \in Calls :
        /\ tasks[j].src = Auto
        /\ tasks[j].calls = <<"deepl", "deepl.fail", "detect", "skip">>
        /\ IsDone(tasks[j]) /\ tasks[j].result = Null

(***************************************************************************)
(* Companion guard: hasBeenTranslated / markMessageTranslated              *)
(***************************************************************************)
\* `${messageId}-${targetLang}`
CompanionKey(messageId, targetLang) == <<messageId, targetLang>>

\* an entry older than COMPANION_TTL does not count (and is deleted by the test)
CompanionStale(guard, key, t) == key \in DOMAIN guard /\ t - guard[key] > COMPANION_TTL

hasBeenTranslated(guard, messageId, targetLang, t) ==
    LET key == CompanionKey(messageId, targetLang) IN
    key \in DOMAIN guard /\ ~CompanionStale(guard, key, t)

\* messageTranslations after a call of hasBeenTranslated
CompanionAfterTest(guard, messageId, targetLang, t) ==
    LET key == CompanionKey(messageId, targetLang) IN
    IF CompanionStale(guard, key, t) THEN Drop(guard, {key}) ELSE guard

\* setTimeout(() => messageTranslations.delete(key), 600000)
CompanionTimer(key, t) ==
    [fn |-> "messageTranslations.delete", id |-> key, due |-> t + COMPANION_CLEANUP]

markMessageTranslated(messageId, targetLang) ==
    LET key == CompanionKey(messageId, targetLang) IN
    /\ messageTranslations' = Put(messageTranslations, key, now)
    /\ timers' = timers \cup {CompanionTimer(key, now)}

\* the clean-up timer of a companion entry runs: never before its delay has passed
CompanionTimerFires(tm) ==
    /\ tm \in timers
    /\ tm.fn = "messageTranslations.delete"
    /\ now >= tm.due
    /\ timers' = timers \ {tm}
    /\ messageTranslations' = Drop(messageTranslations, {tm.id})
    /\ UNCHANGED <<now, translateVars, limiterVars, recentTranslations, marks,
                   pairVars, relayVars>>

(***************************************************************************)
(* Reaction handler: client.on('messageReactionAdd')                       *)
(***************************************************************************)
\* the flag emoji are named by their two regional-indicator letters
FLAG_TO_LANG ==
    "GB" :> <<101, 110>> @@ "US" :> <<101, 110>> @@ "ES" :> <<101, 115>> @@
    "MX" :> <<101, 115>> @@ "FR" :> <<102, 114>> @@ "DE" :> <<100, 101>> @@
    "IT" :> <<105, 116>> @@ "PT" :> <<112, 116>> @@ "BR" :> <<112, 116>> @@
    "RU" :> <<114, 117>> @@ "JP" :> <<106, 97>> @@ "CN" :> <<122, 104>> @@
    "KR" :> <<107, 111>> @@ "IN" :> <<104, 105>> @@ "SA" :> <<97, 114>> @@
    "NL" :> <<110, 108>> @@ "PL" :> <<112, 108>> @@ "TR" :> <<116, 114>> @@
    "SE" :> <<115, 118>> @@ "DK" :> <<100, 97>> @@ "FI" :> <<102, 105>> @@
    "NO" :> <<110, 111>> @@ "CZ" :> <<99, 115>> @@ "BG" :> <<98, 103>> @@
    "RO" :> <<114, 111>> @@ "GR" :> <<101, 108>> @@ "HU" :> <<104, 117>> @@
    "SK" :> <<115, 107>> @@ "SI" :> <<115, 108>> @@ "EE" :> <<101, 116>> @@
    "LV" :> <<108, 118>> @@ "LT" :> <<108, 116>> @@ "ID" :> <<105, 100>> @@
    "UA" :> <<117, 107>> @@ "TH" :> <<116, 104>> @@ "VN" :> <<118, 105>>

\* guildReactionChannels && guildReactionChannels.has(message.channel.id)
ReactionEnabled(guildId, channelId) ==
    guildId \in DOMAIN reactionChannels /\ channelId \in DOMAIN reactionChannels[guildId]

\* channelConfig?.cooldownEnabled ?? true
CooldownEnabled(guildId, channelId) == reactionChannels[guildId][channelId].cooldownEnabled

\* where the handler leaves after the reaction is complete, or "translate" when it
\* reaches the call of translate
ReactionVerdict(user, message, id, emoji) ==
    CASE message.guild = NoGuild -> "noguild"
      [] ~ReactionEnabled(message.guild, message.channel) -> "disabled"
      [] emoji \notin DOMAIN FLAG_TO_LANG -> "noflag"
      [] isReactionRateLimited(reactionLimits, user, message.guild, message.channel,
                               CooldownEnabled(message.guild, message.channel), now)
           -> "limited"
      [] hasBeenTranslated(messageTranslations, id, FLAG_TO_LANG[emoji], now) -> "duplicate"
      [] Trim(message.content) = <<>> -> "empty"
      [] OTHER -> "translate"

\* faulty variant: the quota is consulted after the companion guard and the text
QuotaConsultedLate(verdict) == verdict \in {"limited", "translate"}

\* the handler reached the call of isReactionRateLimited
QuotaConsulted(verdict) == verdict \in {"limited", "duplicate", "empty", "translate"}

SetTask(self, tk) ==
    IF self > Len(tasks) THEN Append(tasks, tk) ELSE [tasks EXCEPT ![self] = tk]

\* the handler of task `self` (now tk) runs from `const message = reaction.message`
\* to its first await or its return
ReactionChecks(self, tk) ==
    LET message == messages[tk.msg]
        verdict == ReactionVerdict(tk.user, message, tk.msg, tk.emoji)
        consulted == QuotaConsulted(verdict)
        enabled == CooldownEnabled(message.guild, message.channel)
        key == ReactionKey(tk.user, message.guild, message.channel)
        after == ReactionLimitsAfter(reactionLimits, tk.user, message.guild,
                                     message.channel, enabled, now)
        targetLang == FLAG_TO_LANG[tk.emoji]
    IN
    /\ lastCall' = [fn |-> "messageReactionAdd", id |-> tk.msg, user |-> tk.user,
                    verdict |-> verdict]
    /\ reactionLimits' = IF consulted THEN after ELSE reactionLimits
    /\ winAdmits' = IF consulted /\ enabled /\ verdict # "limited"
                    THEN NoteWindowAdmit(winAdmits, reactionLimits, after, key)
                    ELSE winAdmits
    /\ messageTranslations' =
           IF verdict \in {"duplicate", "empty", "translate"}
           THEN CompanionAfterTest(messageTranslations, tk.msg, targetLang, now)
           ELSE messageTranslations
    /\ tasks' = IF verdict = "translate"
                THEN SetTask(self, TranslateStart([tk EXCEPT
                         !.text = Trim(message.content), !.src = Auto, !.tgt = targetLang]))
                ELSE IF self > Len(tasks) THEN tasks
                ELSE SetTask(self, EndReaction(tk, verdict))

\* a reaction event reaches the bot: `emoji` was added to message `id` by `user`
MessageReactionAdd(user, bot, id, emoji, partial) ==
    LET tk == [NewTask("reaction", <<>>, Auto, <<>>) EXCEPT
                  !.msg = id, !.user = user, !.emoji = emoji]
    IN
    /\ IF bot
       THEN /\ lastCall' = [fn |-> "messageReactionAdd", id |-> id, user |-> user,
                            verdict |-> "bot"]
            /\ UNCHANGED <<reactionLimits, winAdmits, messageTranslations, tasks>>
       ELSE IF partial
       THEN /\ lastCall' = [fn |-> "messageReactionAdd", id |-> id, user |-> user,
                            verdict |-> "fetch"]
            /\ tasks' = Append(tasks, [tk EXCEPT !.pc = "reaction.fetch"])
            /\ UNCHANGED <<reactionLimits, winAdmits, messageTranslations>>
       ELSE ReactionChecks(Len(tasks) + 1, tk)
    /\ UNCHANGED <<now, translateVars, rateLimits, admits, recentTranslations, timers,
                   marks, pairVars, messages, pendingEvents, sends>>

\* `await reaction.fetch()` of task `self` ends
ReactionFetchResponds(self, ok) ==
    LET tk == tasks[self] IN
    /\ tk.kind = "reaction" /\ tk.pc = "reaction.fetch"
    /\ IF ok
       THEN ReactionChecks(self, tk)
       ELSE /\ tasks' = [tasks EXCEPT ![self] = EndReaction(tk, "fetchfailed")]
            /\ lastCall' = [fn |-> "messageReactionAdd", id |-> tk.msg, user |-> tk.user,
                            verdict |-> "fetchfailed"]
            /\ UNCHANGED <<reactionLimits, winAdmits, messageTranslations>>
    /\ UNCHANGED <<now, translateVars, rateLimits, admits, recentTranslations, timers,
                   marks, pairVars, messages, pendingEvents, sends>>

\* the platform accepts message.reply(...): the reply exists from now on and its
\* own messageCreate event is on its way to the bot
ReplyAccepted(self) ==
    LET tk == tasks[self]
        id == Len(messages) + 1
    IN
    /\ tk.kind = "reaction" /\ tk.pc = "reply"
    /\ messages' = Append(messages,
           [author |-> BotUser, bot |-> TRUE, channel |-> messages[tk.msg].channel,
            guild |-> messages[tk.msg].guild, content |-> <<>>, attachments |-> FALSE])
    /\ pendingEvents' = pendingEvents \cup {id}
    /\ tasks' = [tasks EXCEPT ![self] =
                    [Log(tk, "reply") EXCEPT !.pc = "replied", !.sent = id, !.at = now]]
    /\ UNCHANGED <<now, translateVars, limiterVars, guardVars, pairVars, sends>>

\* message.reply(...) rejects: the catch of the handler logs it
ReplyFails(self) ==
    LET tk == tasks[self] IN
    /\ tk.kind = "reaction" /\ tk.pc = "reply"
    /\ tasks' = [tasks EXCEPT ![self] = Throw(Log(tk, "reply.fail"))]
    /\ UNCHANGED <<now, translateVars, limiterVars, guardVars, pairVars, messages,
                   pendingEvents, sends>>

\* `await message.reply(...)` returns in task `self`: markMessageTranslated
ReplyReturns(self) ==
    LET tk == tasks[self] IN
    /\ tk.kind = "reaction" /\ tk.pc = "replied"
    /\ markMessageTranslated(tk.msg, tk.tgt)
    /\ tasks' = [tasks EXCEPT ![self] = [EndReaction(tk, "replied") EXCEPT !.endedAt = now]]
    /\ UNCHANGED <<now, translateVars, limiterVars, recentTranslations, marks, pairVars,
                   messages, pendingEvents, sends>>

\* the messageCreate event of a reply reaches the bot
ReplyMessageArrives(id) ==
    /\ id \in pendingEvents
    /\ pendingEvents' = pendingEvents \ {id}
    /\ MessageCreate(id, messages[id])
    /\ UNCHANGED <<now, translateVars, reactionLimits, admits, winAdmits,
                   messageTranslations, pairVars, messages, sends>>

(***************************************************************************)
(* SpecReaction: members react with flags to the messages of a channel     *)
(* where reaction translation is enabled, all within one millisecond       *)
(***************************************************************************)
MaxReactions == 2          \* handler invocations that reach an await

\* the messages that exist when the bot starts: message 1 has text, message 2 is
\* a file without text, message 3 is in a channel where reaction translation is off
ReactionMessages ==
    << [author |-> 1, bot |-> FALSE, channel |-> 11, guild |-> 21,
        content |-> Hey, attachments |-> FALSE],
       [author |-> 1, bot |-> FALSE, channel |-> 11, guild |-> 21,
        content |-> <<>>, attachments |-> TRUE],
       [author |-> 1, bot |-> FALSE, channel |-> 12, guild |-> 21,
        content |-> Hey, attachments |-> FALSE] >>

InitReactionSpec ==
    /\ now = 1
    /\ InitLimiters /\ InitGuards
    /\ deeplKey = TRUE
    /\ translationCache = EmptyMap
    /\ guildConfigs = EmptyMap
    /\ reactionChannels = [g \in Guilds |-> [c \in {11} |-> [cooldownEnabled |-> TRUE]]]
    /\ reactionDb = {}
    /\ loads = <<>>
    /\ db = {} /\ dbOps = <<>> /\ replies = <<>>
    /\ messages = ReactionMessages
    /\ pendingEvents = {} /\ tasks = <<>> /\ sends = <<>>

\* who reacts, whether they are a bot, to which message, with which emoji, and
\* whether the event comes as a partial
ReactionEvents ==
    { <<1, FALSE, 1, "ES", FALSE>>, <<2, FALSE, 1, "MX", FALSE>>, <<2, FALSE, 1, "ES", TRUE>>,
      <<1, FALSE, 1, "GB", FALSE>>, <<1, FALSE, 1, "+1", FALSE>>,
      <<1, FALSE, 3, "ES", FALSE>>,
      <<OtherBot, TRUE, 1, "ES", FALSE>> }

ReactionPosted(user, bot, id, emoji, partial) ==
    /\ Len(tasks) < MaxReactions
    /\ MessageReactionAdd(user, bot, id, emoji, partial)

NextReaction ==
    \/ \E e \in ReactionEvents : ReactionPosted(e[1], e[2], e[3], e[4], e[5])
    \/ \E self \in 1..Len(tasks), ok \in BOOLEAN : ReactionFetchResponds(self, ok)
    \/ \E self \in 1..Len(tasks), answer \in {"ok", "fail"} : DeepLResponds(self, answer)
    \/ \E self \in 1..Len(tasks), answer \in {"ok", "fail"} : MyMemoryResponds(self, answer)
    \/ \E self \in 1..Len(tasks) : ReplyAccepted(self)
    \/ \E self \in 1..Len(tasks) : ReplyFails(self)
    \/ \E self \in 1..Len(tasks) : ReplyReturns(self)
    \/ \E id \in pendingEvents : ReplyMessageArrives(id)

SpecReaction == InitReactionSpec /\ [][NextReaction]_vars

Reactions == {j \in TaskIds : tasks[j].kind = "reaction"}
Replied(j) == tasks[j].sent # 0
SameReaction(j, k) == tasks[j].msg = tasks[k].msg /\ tasks[j].tgt = tasks[k].tgt

\* C21: two replies of the reaction handler for one message and one target language
\* are more than COMPANION_TTL apart.
C21_CompanionGuard ==
    \A j, k \in Reactions :
        (j < k /\ Replied(j) /\ Replied(k) /\ SameReaction(j, k)) =>
            \/ tasks[k].at - tasks[j].at > COMPANION_TTL
            \/ tasks[j].at - tasks[k].at > COMPANION_TTL

(***************************************************************************)
(* SpecIntake: a member posts, edits and reacts in a guild with one pair   *)
(* (channel 11 to channel 12) and reaction translation in channel 11; the  *)
(* events of the relay's own messages are still on their way (SpecRelay    *)
(* delivers them)                                                          *)
(***************************************************************************)
MaxIntakePosts == 1        \* messages posted by the member
MaxIntakeTicks == 1        \* clock steps of the intake specification

\* a text in the source channel of the pair, a text in a channel with no outgoing
\* pair, a message with neither text nor file in the source channel, and a text
\* of another bot in the source channel
IntakePosts ==
    { [author |-> 1, bot |-> FALSE, channel |-> 11, guild |-> 21,
       content |-> Hey, attachments |-> FALSE],
      [author |-> 1, bot |-> FALSE, channel |-> 12, guild |-> 21,
       content |-> Hey, attachments |-> FALSE],
      [author |-> 1, bot |-> FALSE, channel |-> 11, guild |-> 21,
       content |-> <<>>, attachments |-> FALSE],
      [author |-> OtherBot, bot |-> TRUE, channel |-> 11, guild |-> 21,
       content |-> Hey, attachments |-> FALSE] }
IntakeEdits == {Hey, <<>>}

InitIntakeSpec ==
    /\ now = 1
    /\ InitLimiters /\ InitGuards /\ InitRelay
    /\ deeplKey = TRUE
    /\ translationCache = EmptyMap
    /\ guildConfigs = [g \in Guilds |-> [pairs |-> <<RelayPairs[1]>>]]
    /\ reactionChannels = [g \in Guilds |-> [c \in {11} |-> [cooldownEnabled |-> TRUE]]]
    /\ reactionDb = {}
    /\ loads = <<>>
    /\ db = {} /\ dbOps = <<>> /\ replies = <<>>

\* no handler is suspended at an await: the events of this specification reach
\* the bot one at a time
Idle == \A j \in 1..Len(tasks) : IsDone(tasks[j])

\* the member posts a message and its messageCreate event reaches the bot
IntakePosted(message) ==
    /\ Idle
    /\ Cardinality({id \in 1..Len(messages) : messages[id].author # BotUser}) < MaxIntakePosts
    /\ Len(tasks) < MaxFanOuts
    /\ messages' = Append(messages, message)
    /\ MessageCreate(Len(messages) + 1, message)
    /\ UNCHANGED <<now, translateVars, reactionLimits, admits, winAdmits,
                   messageTranslations, pairVars, pendingEvents, sends>>

\* the member edits a message: its content becomes `content`
IntakeEdited(id, content) ==
    /\ Idle
    /\ MessageUpdate(id, content)

\* the member adds the Spanish flag to the first message
IntakeReaction ==
    /\ Idle
    /\ messages # <<>>
    /\ ReactionPosted(1, FALSE, 1, "ES", FALSE)

TickIntake ==
    /\ Idle
    /\ messages # <<>>
    /\ now + TRANSLATION_COOLDOWN <= 1 + MaxIntakeTicks * TRANSLATION_COOLDOWN
    /\ now' = now + TRANSLATION_COOLDOWN
    /\ UNCHANGED <<limiterVars, guardVars, translateVars, pairVars, relayVars>>

NextIntake ==
    \/ \E message \in IntakePosts : IntakePosted(message)
    \/ \E id \in 1..Len(messages), content \in IntakeEdits : IntakeEdited(id, content)
    \/ IntakeReaction
    \/ \E self \in 1..Len(tasks) : FetchResponds(self, TRUE)
    \/ \E self \in 1..Len(tasks) : DeepLResponds(self, "ok")
    \/ \E self \in 1..Len(tasks) : SendAccepted(self)
    \/ \E self \in 1..Len(tasks) : SendReturns(self)
    \/ \E self \in 1..Len(tasks) : ReplyAccepted(self)
    \/ \E self \in 1..Len(tasks) : ReplyReturns(self)
    \/ TickIntake

SpecIntake == InitIntakeSpec /\ [][NextIntake]_vars

\* the steps in which a messageCreate, messageUpdate or messageReactionAdd
\* handler runs its guards
PostStep ==
    /\ Idle /\ Len(messages') = Len(messages) + 1
    /\ \E message \in IntakePosts : IntakePosted(message)
EditStep ==
    /\ Idle /\ Len(messages') = Len(messages) /\ now' = now
    /\ \E id \in 1..Len(messages), content \in IntakeEdits : IntakeEdited(id, content)
\* no send, no reply, no provider call, and the Loop Guard, the companion guard,
\* the translation cache and the pair graph are as before
Quiet ==
    UNCHANGED <<sends, replies, tasks, pendingEvents, recentTranslations, timers, marks,
                messageTranslations, translationCache, guildConfigs, reactionChannels,
                db, dbOps>>

\* C26: a handler run that the cooldown limiter (message path) or the burst limiter
\* (reaction path) rejects sends nothing, replies nothing, calls no provider and
\* leaves the Loop Guard, the companion guard, the cache and the pair graph unchanged
C26_SilentDrop ==
    [][(/\ lastCall'.fn \in {"messageCreate", "messageReactionAdd"}
        /\ lastCall'.verdict = "limited"
        /\ (PostStep \/ EditStep \/ IntakeReaction))
           => Quiet]_vars

\* a message of the member was rejected by the cooldown limiter after the member
\* had used up the reaction quota of the channel
C26_Witness ==
    /\ lastCall.fn = "messageCreate" /\ lastCall.verdict = "limited"
    /\ \E key \in DOMAIN reactionLimits :
           reactionLimits[key].count = MAX_REACTIONS_PER_MINUTE

\* C27: an edit by a bot or to empty content is ignored; any other edit has the
\* verdict and the effects of messageCreate on the edited message, and an edit of
\* a message whose id is in the Loop Guard starts no relay and sends nothing
C27_EditsNotDoubleProcessed ==
    [][(/\ Idle /\ Len(messages') = Len(messages) /\ now' = now
        /\ lastCall'.fn \in {"messageCreate", "messageUpdate"}) =>
          \A id \in 1..Len(messages), content \in IntakeEdits :
              IntakeEdited(id, content) =>
                  LET newMsg == [messages[id] EXCEPT !.content = content] IN
                  /\ (newMsg.bot \/ content = <<>>) =>
                         /\ lastCall'.verdict = "ignored"
                         /\ Quiet /\ UNCHANGED <<rateLimits, reactionLimits>>
                  /\ ~(newMsg.bot \/ content = <<>>) =>
                         /\ lastCall' = [fn |-> "messageCreate", id |-> id,
                                         verdict |-> Verdict(id, newMsg)]
                         /\ MessageCreate(id, newMsg)
                  /\ id \in recentTranslations =>
                         UNCHANGED <<tasks, sends, pendingEvents>>]_vars

\* the member edited a relayed message while its id was in the Loop Guard, and
\* the message was relayed exactly once
C27_Witness ==
    /\ lastCall.fn = "messageCreate" /\ lastCall.verdict = "recent"
    /\ lastCall.id \in recentTranslations
    /\ Len(sends) = 1
    /\ \A j \in 1..Len(tasks) : IsDone(tasks[j])

\* C28: a message that the Loop Guard rejects leaves rateLimits unchanged; a
\* message that passes the limiter and is then dropped for having no outgoing pair
\* or no content has its cooldown timestamp recorded
C28_GuardOrder ==
    [][(lastCall'.fn = "messageCreate" /\ (PostStep \/ EditStep)) =>
          LET message == messages'[lastCall'.id]
              key == RateKey(message.author, message.channel)
          IN
          /\ lastCall'.verdict = "recent" => rateLimits' = rateLimits
          /\ lastCall'.verdict \in {"nopairs", "empty"} =>
                 /\ key \in DOMAIN rateLimits'
                 /\ rateLimits'[key] = now
                 /\ ~CooldownActive(rateLimits, key, now)]_vars

\* the Loop Guard rejected an edit at a time when the limiter would have admitted
\* the member and recorded a new timestamp
C28_Witness ==
    /\ lastCall.fn = "messageCreate" /\ lastCall.verdict = "recent"
    /\ LET message == messages[lastCall.id]
           key == RateKey(message.author, message.channel)
       IN /\ key \in DOMAIN rateLimits
          /\ ~CooldownActive(rateLimits, key, now)
          /\ rateLimits[key] < now

(***************************************************************************)
(* SpecEvict: calls of translate when the cache holds about CACHE_MAX      *)
(* entries of different ages                                               *)
(***************************************************************************)
CacheBackground == 100     \* entries in the cache when the specification starts
MaxAged == 1               \* entries of each of the two older ages among them
MaxEvictCalls == 1         \* calls of translate

EvictRequests == {<<Bon, Auto, En>>, <<Privet, Auto, En>>}

\* the key of the i-th entry stored before the specification starts: a text of
\* one ideograph, translated from auto to en
BackgroundKey(i) == CacheKey(<<19968 + i>>, Auto, En)

\* the cache after n stores: the first `first` at time 1, the next `second` at
\* time 2, the others at time t; no scan has deleted any of them when t - 1 is
\* at most CACHE_TTL
BackgroundCache(n, first, second, t) ==
    [k \in {BackgroundKey(i) : i \in 1..n} |->
        LET i == CHOOSE i \in 1..n : BackgroundKey(i) = k IN
        [result |-> Hey,
         timestamp |-> IF i <= first THEN 1 ELSE IF i <= first + second THEN 2 ELSE t]]

\* the times of the calls: the oldest entries have age CACHE_TTL or CACHE_TTL + 1,
\* the next CACHE_TTL - 1 or CACHE_TTL
EvictTimes == {1 + CACHE_TTL, 2 + CACHE_TTL}

InitEvictSpec ==
    /\ now \in EvictTimes
    /\ InitLimiters /\ InitGuards /\ InitPairs /\ InitRelay
    /\ deeplKey = TRUE
    /\ \E n \in {CacheBackground - 1, CacheBackground, CacheBackground + 1},
          first \in 0..MaxAged, second \in 0..MaxAged :
           translationCache = BackgroundCache(n, first, second, 1 + CACHE_TTL)

CallTranslateFull(text, sourceLang, targetLang) ==
    /\ Len(tasks) < MaxEvictCalls
    /\ tasks' = Append(tasks, TranslateStart(NewCall(text, sourceLang, targetLang)))
    /\ UNCHANGED <<now, translateVars, limiterVars, guardVars, pairVars, messages,
                   pendingEvents, sends>>

NextEvict ==
    \/ \E r \in EvictRequests : CallTranslateFull(r[1], r[2], r[3])
    \/ \E self \in 1..Len(tasks), answer \in {"ok", "malformed", "fail"} :
           DeepLResponds(self, answer)
    \/ \E self \in 1..Len(tasks), answer \in {"ok", "fail"} : MyMemoryResponds(self, answer)

SpecEvict == InitEvictSpec /\ [][NextEvict]_vars

\* the calls of translate that store their result in this step, and their keys
Storing == {j \in 1..Len(tasks) : ~IsDone(tasks[j]) /\ Stored(tasks'[j])}
StoredKeys == {CacheKey(tasks[j].text, tasks[j].src, tasks[j].tgt) : j \in Storing}
\* the entries of the cache that the step deletes
Deleted == DOMAIN translationCache \ DOMAIN translationCache'

\* C29: a step deletes cache entries only if a call stores its result in it and
\* the cache then holds more than CACHE_MAX entries; it then deletes exactly the
\* entries older than CACHE_TTL, none of which a lookup would serve
C29_CacheEviction ==
    [][LET scanned == Cardinality(DOMAIN translationCache \cup StoredKeys) > CACHE_MAX IN
       /\ Deleted # {} => (Storing # {} /\ scanned)
       /\ (Storing # {} /\ scanned) =>
              Deleted = {k \in DOMAIN translationCache \ StoredKeys :
                            now - translationCache[k].timestamp > CACHE_TTL}
       /\ \A k \in Deleted : ~CacheHit(translationCache, k, now)]_vars

\* a scan has deleted the oldest background entry and kept a background entry
\* that was no hit any more, and the cache holds more than CACHE_MAX entries
C29_Witness ==
    /\ BackgroundKey(1) \notin DOMAIN translationCache
    /\ \E i \in 1..CacheBackground :
           /\ BackgroundKey(i) \in DOMAIN translationCache
           /\ now - translationCache[BackgroundKey(i)].timestamp = CACHE_TTL
    /\ Cardinality(DOMAIN translationCache) > CACHE_MAX

(***************************************************************************)
(* SpecKeys: messages in two channels whose pairs were added with the      *)
(* source tags "br" and "pt-br"; /add stores the tags as typed             *)
(***************************************************************************)
MaxKeyPosts == 2           \* messages posted by the members

Ola == <<111, 108, 97>>    \* "ola"
Pt == <<112, 116>>         \* "pt"
Br == <<98, 114>>          \* "br"
KeyPairs ==
    << [id |-> <<0, 11, 12>>, guildId |-> 21, sourceChannel |-> 11, targetChannel |-> 12,
        sourceLang |-> Br, targetLang |-> En],
       [id |-> <<1, 12, 11>>, guildId |-> 21, sourceChannel |-> 12, targetChannel |-> 11,
        sourceLang |-> Pt \o Dash \o Br, targetLang |-> En] >>
\* "ola-pt" in the channel of the first pair, "ola" in the channel of the second
KeyPosts ==
    { [author |-> 1, bot |-> FALSE, channel |-> 11, guild |-> 21,
       content |-> Ola \o Dash \o Pt, attachments |-> FALSE],
      [author |-> 2, bot |-> FALSE, channel |-> 12, guild |-> 21,
       content |-> Ola, attachments |-> FALSE] }

InitKeysSpec ==
    /\ now = 1
    /\ InitLimiters /\ InitGuards /\ InitRelay
    /\ deeplKey = TRUE
    /\ translationCache = EmptyMap
    /\ guildConfigs = [g \in Guilds |-> [pairs |-> KeyPairs]]
    /\ reactionChannels = EmptyMap
    /\ reactionDb = {}
    /\ loads = <<>>
    /\ db = {} /\ dbOps = <<>> /\ replies = <<>>

\* a member posts a message and its messageCreate event reaches the bot
KeyPosted(message) ==
    /\ Cardinality({id \in 1..Len(messages) : ~messages[id].bot}) < MaxKeyPosts
    /\ messages' = Append(messages, message)
    /\ MessageCreate(Len(messages) + 1, message)
    /\ UNCHANGED <<now, translateVars, reactionLimits, admits, winAdmits,
                   messageTranslations, pairVars, pendingEvents, sends>>

NextKeys ==
    \/ \E message \in KeyPosts : KeyPosted(message)
    \/ \E self \in 1..Len(tasks), found \in BOOLEAN : FetchResponds(self, found)
    \/ \E self \in 1..Len(tasks), answer \in {"ok", "fail"} : DeepLResponds(self, answer)
    \/ \E self \in 1..Len(tasks), answer \in {"ok", "fail"} : MyMemoryResponds(self, answer)
    \/ \E self \in 1..Len(tasks) : SendAccepted(self)
    \/ \E self \in 1..Len(tasks) : SendFails(self)
    \/ \E self \in 1..Len(tasks) : SendReturns(self)

SpecKeys == InitKeysSpec /\ [][NextKeys]_vars

\* the handler runs that have called translate, and the triple each has passed
Issued == {j \in TaskIds : tasks[j].tgt # <<>>}
Triple(j) == <<tasks[j].text, tasks[j].src, tasks[j].tgt>>
\* the call of task j was served from the cache
ServedFromCache(j) == tasks[j].pc = "send" /\ Invoked(tasks[j], "cache")

\* C30: requests with different (text, source, target) triples have different
\* cache keys, and a request served from the cache gets a translation of its own
\* text from its own source tag
C30_CacheKeySeparation ==
    /\ \A j \in Issued :
           ServedFromCache(j) =>
               /\ tasks[j].translated.text = tasks[j].text
               /\ tasks[j].translated.to = tasks[j].tgt
    /\ \A j \in Issued, k \in Issued :
           (/\ DOMAIN translationCache # {}
            /\ ServedFromCache(j) \/ ServedFromCache(k)
            /\ Triple(j) # Triple(k)) =>
               CacheKey(tasks[j].text, tasks[j].src, tasks[j].tgt)
                   # CacheKey(tasks[k].text, tasks[k].src, tasks[k].tgt)

(***************************************************************************)
(* Provider attempts of one call of translate (SpecTranslate)              *)
(***************************************************************************)
\* C31: one call of translate invokes DeepL at most once and MyMemory at most
\* twice, and MyMemory twice only when no DeepL request was made
C31_ProviderAttempts ==
    \A j \in Calls :
        /\ Times(tasks[j], "deepl") <= 1
        /\ Times(tasks[j], "mymemory") <= 2
        /\ Times(tasks[j], "deepl") + Times(tasks[j], "mymemory") <= 2

\* without a DeepL key, a call for a target DeepL supports has ended after two
\* failed MyMemory requests
C31_Witness ==
    /\ ~deeplKey
    /\ \E j \in Calls :
           /\ useDeepL(tasks[j].tgt)
           /\ Threw(tasks[j])
           /\ Times(tasks[j], "mymemory") = 2
           /\ Times(tasks[j], "mymemory.fail") = 2

(***************************************************************************)
(* SpecRetry: translate of the revision with retry logic.  It awaits       *)
(* translateWithMyMemory; when that rejects and retryCount < 1 it awaits a *)
(* timer of RETRY_DELAY and calls itself with retryCount + 1; a task of    *)
(* kind "retry" is the outermost call with its nested call                 *)
(***************************************************************************)
MaxRetryCalls == 2         \* calls of the retrying translate

RetryRequests == {<<Bon, Fr, En>>, <<Privet, Ru, En>>}

\* faulty variant: the retry is allowed once more
RetryAllowedTwice(retryCount) == retryCount < 2

\* `if (retryCount < 1)`
RetryAllowed(retryCount) == retryCount < 1

\* setTimeout(resolve, 2000) of task `self`
RetryTimer(self, t) == [fn |-> "resolve", id |-> self, due |-> t + RETRY_DELAY]

InitRetrySpec ==
    /\ now = 1
    /\ InitLimiters /\ InitGuards /\ InitTranslate /\ InitPairs /\ InitRelay

\* translate(text, sourceLang, targetLang) is called: it runs up to its await of
\* translateWithMyMemory
CallRetrying(text, sourceLang, targetLang) ==
    /\ Len(tasks) < MaxRetryCalls
    /\ tasks' = Append(tasks, [Log(NewTask("retry", text, sourceLang, targetLang), "mymemory")
                                  EXCEPT !.pc = "mymemory", !.mmSource = sourceLang])
    /\ UNCHANGED <<now, translateVars, limiterVars, guardVars, pairVars, messages,
                   pendingEvents, sends>>

\* the MyMemory request of task `self` ends: the text is returned to the caller,
\* or the catch block starts the delay or throws
RetryProviderResponds(self, ok) ==
    LET tk == tasks[self] IN
    /\ self \in 1..Len(tasks)
    /\ tk.kind = "retry" /\ tk.pc = "mymemory"
    /\ IF ok
       THEN /\ tasks' = [tasks EXCEPT ![self] =
                   Finish(Log(tk, "mymemory.ok"), "return",
                          MyMemoryText(tk.text, tk.src, tk.tgt))]
            /\ UNCHANGED timers
       ELSE IF RetryAllowed(tk.retryCount)
       THEN /\ tasks' = [tasks EXCEPT ![self] = [Log(tk, "mymemory.fail") EXCEPT !.pc = "delay"]]
            /\ timers' = timers \cup {RetryTimer(self, now)}
       ELSE /\ tasks' = [tasks EXCEPT ![self] = Finish(Log(tk, "mymemory.fail"), "throw", Null)]
            /\ UNCHANGED timers
    /\ UNCHANGED <<now, translateVars, limiterVars, messageTranslations, recentTranslations,
                   marks, pairVars, messages, pendingEvents, sends>>

\* the timer of task `self` fires, never before its delay has passed: the task
\* calls translate with retryCount + 1, which runs up to its await
RetryDelayElapses(self) ==
    LET tk == tasks[self] IN
    /\ self \in 1..Len(tasks)
    /\ tk.kind = "retry" /\ tk.pc = "delay"
    /\ \E tm \in timers :
           /\ tm.fn = "resolve" /\ tm.id = self
           /\ now >= tm.due
           /\ timers' = timers \ {tm}
    /\ tasks' = [tasks EXCEPT ![self] =
           [Log(tk, "mymemory") EXCEPT !.pc = "mymemory", !.retryCount = @ + 1]]
    /\ UNCHANGED <<now, translateVars, limiterVars, messageTranslations, recentTranslations,
                   marks, pairVars, messages, pendingEvents, sends>>

\* the clock moves on to the time the next timer is due
TickRetry ==
    /\ timers # {}
    /\ \A tm \in timers : tm.due > now
    /\ \E tm \in timers :
           /\ \A other \in timers : tm.due <= other.due
           /\ now' = tm.due
    /\ UNCHANGED <<limiterVars, guardVars, translateVars, pairVars, relayVars>>

\* the clock moves on while a request is under way
TickRequest ==
    /\ timers = {}
    /\ \E j \in 1..Len(tasks) : tasks[j].pc = "mymemory"
    /\ now + RETRY_DELAY <= 1 + MaxRetryCalls * RETRY_DELAY
    /\ now' = now + RETRY_DELAY
    /\ UNCHANGED <<limiterVars, guardVars, translateVars, pairVars, relayVars>>

NextRetry ==
    \/ \E r \in RetryRequests : CallRetrying(r[1], r[2], r[3])
    \/ \E self \in 1..Len(tasks), ok \in BOOLEAN : RetryProviderResponds(self, ok)
    \/ \E self \in 1..Len(tasks) : RetryDelayElapses(self)
    \/ TickRetry
    \/ TickRequest

\* every request is answered or times out (axios timeout: 10000), every timer
\* fires, and the clock does not stop
RetryFairness ==
    /\ \A self \in 1..MaxRetryCalls :
           /\ WF_vars(\E ok \in BOOLEAN : RetryProviderResponds(self, ok))
           /\ WF_vars(RetryDelayElapses(self))
    /\ WF_vars(TickRetry)

SpecRetry == InitRetrySpec /\ [][NextRetry]_vars /\ RetryFairness

Retrying == {j \in TaskIds : tasks[j].kind = "retry"}

\* C32: a call of the retrying translate makes at most two provider requests, the
\* second with retryCount 1, and every call that has started ends: it returns
\* the provider's text or throws
C32_BoundedRetry ==
    /\ [](\A j \in Retrying :
              /\ Times(tasks[j], "mymemory") <= 2
              /\ tasks[j].retryCount <= 1
              /\ IsDone(tasks[j]) =>
                     \/ tasks[j].outcome = "return" /\ tasks[j].result.by = "mymemory"
                     \/ tasks[j].outcome = "throw" /\ Times(tasks[j], "mymemory.fail") = 2)
    /\ \A j \in 1..MaxRetryCalls :
           (Len(tasks) >= j) ~> (Len(tasks) >= j /\ IsDone(tasks[j]))

\* a call has thrown after its request failed, the delay passed and the second
\* request failed as well
C32_Witness ==
    \E j \in Retrying :
        /\ Threw(tasks[j])
        /\ tasks[j].calls = <<"mymemory", "mymemory.fail", "mymemory", "mymemory.fail">>
        /\ tasks[j].retryCount = 1
        /\ now >= 1 + RETRY_DELAY

(***************************************************************************)
(* Remove and clear in a bot with two guilds (SpecGuilds)                  *)
(***************************************************************************)
\* every guild but guildId has the configuration it had
OtherGuildsUnchanged(guildId) ==
    \A g \in DOMAIN guildConfigs \ {guildId} :
        g \in DOMAIN guildConfigs' /\ guildConfigs'[g] = guildConfigs[g]

Without(pairs, id) == SelectSeq(pairs, LAMBDA p : p.id # id)

\* C33: a remove command of an administrator with the id of a pair of the guild
\* takes exactly that pair out of the guild's list and keeps the others in their
\* order, a clear command empties the guild's list, and both leave the lists of
\* all other guilds as they were
C33_RemoveExact ==
    [][/\ \A guildId \in {21, OtherGuild}, id \in AllPairIds :
              (/\ lastCall'.fn = "remove"
               /\ \E n \in 1..Len(configPairs(guildConfigs, guildId)) :
                      configPairs(guildConfigs, guildId)[n].id = id
               /\ Remove(TRUE, guildId, id)) =>
                  /\ configPairs(guildConfigs', guildId)
                         = Without(configPairs(guildConfigs, guildId), id)
                  /\ Len(configPairs(guildConfigs', guildId))
                         = Len(configPairs(guildConfigs, guildId)) - 1
                  /\ OtherGuildsUnchanged(guildId)
       /\ \A guildId \in {21, OtherGuild} :
              (lastCall'.fn = "clear" /\ Clear(TRUE, guildId)) =>
                  /\ configPairs(guildConfigs', guildId) = <<>>
                  /\ OtherGuildsUnchanged(guildId)]_vars

\* the forward pair of a bidirectional add was removed: the reverse pair and the
\* other guild's pair are still there
C33_Witness ==
    /\ lastCall.fn = "remove" /\ lastCall.verdict = "remove" /\ lastCall.guild = 21
    /\ lastCall.id[2] = 11 /\ lastCall.id[3] = 12
    /\ Len(configPairs(guildConfigs, 21)) = 1
    /\ configPairs(guildConfigs, 21)[1].sourceChannel = 12
    /\ configPairs(guildConfigs, 21)[1].targetChannel = 11
    /\ configPairs(guildConfigs, OtherGuild) = <<OtherPair>>

(***************************************************************************)
(* Guild configuration load: the per-guild body of clientReady, and        *)
(* guildCreate; the reaction-enable command                                *)
(***************************************************************************)
MaxLoads == 1            \* loads: guild configuration loads started

\* the orders in which a GET without an order clause may return the rows
Orderings(rows) ==
    {data \in [1..Cardinality(rows) -> rows] :
         \A a, b \in 1..Cardinality(rows) : data[a] = data[b] => a = b}

\* rc.cooldownEnabled ?? true
cooldownOf(rc) == IF "cooldownEnabled" \in DOMAIN rc THEN rc.cooldownEnabled ELSE TRUE

\* the Map built from the rows of reaction_channels: a later row of a channel
\* replaces an earlier one
channelMap(reactionChannelData) ==
    LET last(c) == CHOOSE n \in 1..Len(reactionChannelData) :
                       /\ reactionChannelData[n].channelId = c
                       /\ \A m \in (n + 1)..Len(reactionChannelData) :
                              reactionChannelData[m].channelId # c
    IN [c \in {reactionChannelData[n].channelId : n \in 1..Len(reactionChannelData)} |->
            [cooldownEnabled |-> cooldownOf(reactionChannelData[last(c)])]]

\* a load awaits loadGuildConfig ("pairs"), then loadReactionChannels ("channels");
\* without Supabase both return [] without a request
NewLoad(guildId) ==
    [guild |-> guildId, pc |-> "pairs", served |-> ~SupabaseConfigured, data |-> <<>>]

\* guildCreate, or clientReady reaching the guild: `await loadGuildConfig(guild.id)`
GuildCreate(guildId) ==
    /\ Len(loads) < MaxLoads
    /\ loads' = Append(loads, NewLoad(guildId))
    /\ UNCHANGED <<now, translateVars, limiterVars, guardVars, guildConfigs, reactionChannels,
                   reactionDb, db, dbOps, replies, relayVars>>

\* the persistence service answers the GET of load `n` with the rows the guild has
\* at that moment; an error (or the 5 s timeout) is caught and [] is returned
LoadResponds(n, ok) ==
    LET ld == loads[n]
        table == IF ld.pc = "pairs" THEN db ELSE reactionDb
    IN
    /\ ld.pc \in {"pairs", "channels"} /\ ~ld.served
    /\ \E data \in (IF ok THEN Orderings({r \in table : r.guildId = ld.guild}) ELSE {<<>>}) :
           loads' = [loads EXCEPT ![n].served = TRUE, ![n].data = data]
    /\ UNCHANGED <<now, translateVars, limiterVars, guardVars, guildConfigs, reactionChannels,
                   reactionDb, db, dbOps, replies, relayVars>>

\* loadGuildConfig returns: `guildConfigs.set(guild.id, { pairs, lastSync })`, then
\* `await loadReactionChannels(guild.id)`
LoadGuildConfigReturns(n) ==
    LET ld == loads[n] IN
    /\ ld.pc = "pairs" /\ ld.served
    /\ guildConfigs' = Put(guildConfigs, ld.guild, [pairs |-> ld.data])
    /\ loads' = [loads EXCEPT ![n].pc = "channels", ![n].served = ~SupabaseConfigured,
                              ![n].data = <<>>]
    /\ UNCHANGED <<now, translateVars, limiterVars, guardVars, reactionChannels,
                   reactionDb, db, dbOps, replies, relayVars>>

\* loadReactionChannels returns: `reactionChannels.set(guild.id, channelMap)`
LoadReactionChannelsReturns(n) ==
    LET ld == loads[n] IN
    /\ ld.pc = "channels" /\ ld.served
    /\ reactionChannels' = Put(reactionChannels, ld.guild, channelMap(ld.data))
    /\ loads' = [loads EXCEPT ![n].pc = "done", ![n].data = <<>>]
    /\ UNCHANGED <<now, translateVars, limiterVars, guardVars, guildConfigs,
                   reactionDb, db, dbOps, replies, relayVars>>

\* the row upsertReactionChannel(guildId, channelId) posts
ReactionRow(guildId, channelId, t) ==
    [id |-> <<guildId, channelId>>, guildId |-> guildId, channelId |-> channelId,
     createdAt |-> t]

\* interaction.options.getBoolean('cooldown') ?? true; <<>> is an option not given
getCooldown(cooldown) == IF cooldown = <<>> THEN TRUE ELSE cooldown[1]

\* /reaction-enable up to `await upsertReactionChannel(guildId, channelId, cooldownEnabled)`
ReactionEnable(admin, guildId, channelId, cooldown) ==
    LET cooldownEnabled == getCooldown(cooldown)
        withMap == IF guildId \in DOMAIN reactionChannels THEN reactionChannels
                   ELSE Put(reactionChannels, guildId, EmptyMap)
        verdict == CASE NotWhitelisted(guildId) -> "private"
                     [] ~admin -> "admin only"
                     [] channelId \in DOMAIN withMap[guildId] -> "already enabled"
                     [] OTHER -> "enable"
        op == [op |-> "upsertReaction", rows |-> <<ReactionRow(guildId, channelId, now)>>,
               awaited |-> TRUE, reply |-> "enabled"]
        ops == IF verdict = "enable" THEN Request(dbOps, op) ELSE dbOps
    IN
    /\ Commands < MaxCommands
    /\ reactionChannels' =
           CASE verdict = "enable" ->
                    Put(withMap, guildId,
                        Put(withMap[guildId], channelId, [cooldownEnabled |-> cooldownEnabled]))
             [] verdict = "already enabled" -> withMap
             [] OTHER -> reactionChannels
    /\ dbOps' = ops
    /\ replies' = IF ops # dbOps THEN replies
                  ELSE Reply(IF verdict = "enable" THEN "enabled" ELSE verdict)
    /\ lastCall' = [fn |-> "reaction-enable", admin |-> admin, guild |-> guildId,
                    channel |-> channelId, cooldownEnabled |-> cooldownEnabled,
                    verdict |-> verdict]
    /\ UNCHANGED <<now, translateVars, rateLimits, reactionLimits, admits, winAdmits,
                   guardVars, guildConfigs, reactionDb, loads, db, relayVars>>

\* the POST of upsertReactionChannel ends: a row with a known id is replaced
\* (resolution=merge-duplicates); an error is caught and logged
UpsertReactionResponds(n, ok) ==
    LET rows == {dbOps[n].rows[m] : m \in 1..Len(dbOps[n].rows)} IN
    /\ dbOps[n].op = "upsertReaction"
    /\ reactionDb' = IF ok THEN {r \in reactionDb : \A new \in rows : new.id # r.id} \cup rows
                     ELSE reactionDb
    /\ Settle(n, ok)
    /\ UNCHANGED <<now, translateVars, limiterVars, guardVars, guildConfigs, reactionChannels,
                   loads, db, relayVars>>

(***************************************************************************)
(* SpecLoad: commands of administrators while a guild's configuration is   *)
(* loaded                                                                  *)
(***************************************************************************)
CooldownOptions == {<<>>, <<FALSE>>}

InitLoadSpec ==
    /\ now = 1
    /\ InitLimiters /\ InitGuards /\ InitTranslate /\ InitPairs /\ InitRelay

NextLoad ==
    \/ \E guildId \in Guilds : GuildCreate(guildId)
    \/ \E n \in 1..Len(loads), ok \in BOOLEAN : LoadResponds(n, ok)
    \/ \E n \in 1..Len(loads) : LoadGuildConfigReturns(n)
    \/ \E n \in 1..Len(loads) : LoadReactionChannelsReturns(n)
    \/ \E sourceId \in Channels, targetId \in Channels, bidirectional \in BOOLEAN :
           Add(TRUE, 21, sourceId, targetId, En, Es, bidirectional)
    \/ \E pairIdInput \in AllPairIds : Remove(TRUE, 21, pairIdInput)
    \/ Clear(TRUE, 21)
    \/ \E n \in 1..Len(dbOps), ok \in BOOLEAN : UpsertResponds(n, ok)
    \/ \E n \in 1..Len(dbOps), ok \in BOOLEAN : DeleteResponds(n, ok)
    \/ \E admin \in BOOLEAN, cooldown \in CooldownOptions :
           ReactionEnable(admin, 21, 11, cooldown)
    \/ \E n \in 1..Len(dbOps), ok \in BOOLEAN : UpsertReactionResponds(n, ok)

SpecLoad == InitLoadSpec /\ [][NextLoad]_vars

\* a load step: a GET of a load is answered, or one of its awaits returns
LoadStep == loads' # loads

\* the pairs an add command has inserted, persisted and announced, with no request
\* of a command left in flight
Added == {p \in PairsInMemory : p \in db /\ dbOps = <<>>}

\* C34: a pair that an add command has inserted, persisted and announced stays in
\* the in-memory pair list of its guild in every step that is not a remove or a
\* clear: no step of a guild configuration load takes it out.
C34_NoLostAdd ==
    [][\A p \in Added : LoadStep => p \in PairsInMemory']_vars

\* load `n` is about to set the reaction channels of its guild from rows that
\* hold the row of channel `c`
Reloads(n, g, c) ==
    /\ loads[n].guild = g /\ loads[n].pc = "channels" /\ loads[n].served
    /\ loads'[n].pc = "done"
    /\ \E m \in 1..Len(loads[n].data) : loads[n].data[m].id = <<g, c>>

\* C39: a channel enabled with cooldown = false, whose row upsertReactionChannel
\* has persisted, still has cooldownEnabled = false after the reaction channels of
\* its guild are loaded again from those rows.
C39_RoundTrip ==
    [][\A n \in 1..Len(loads), g \in Guilds, c \in Channels :
           (/\ Reloads(n, g, c)
            /\ g \in DOMAIN reactionChannels /\ c \in DOMAIN reactionChannels[g]
            /\ ~reactionChannels[g][c].cooldownEnabled)
               => ~reactionChannels'[g][c].cooldownEnabled]_vars

(***************************************************************************)
(* SpecCompanion: tests and marks of the companion guard over the lifetime *)
(* of its entries and of their clean-up timers                             *)
(***************************************************************************)
MaxWindows == 1          \* companion: clean-up delays the clock may cover
CompanionMessages == {1, 2}
\* the clock moves just past the window of an entry, or on to the clean-up delay
CompanionSteps == {COMPANION_TTL + 1, COMPANION_CLEANUP - COMPANION_TTL - 1}

InitCompanionSpec ==
    /\ now = 1
    /\ InitLimiters /\ InitGuards /\ InitTranslate /\ InitPairs /\ InitRelay

\* a direct call of hasBeenTranslated: a stale entry is deleted by the test
TestTranslated(messageId, targetLang) ==
    /\ messageTranslations' = CompanionAfterTest(messageTranslations, messageId, targetLang, now)
    /\ lastCall' = [fn |-> "hasBeenTranslated", id |-> messageId, lang |-> targetLang,
                    at |-> now,
                    result |-> hasBeenTranslated(messageTranslations, messageId, targetLang, now)]
    /\ UNCHANGED <<now, translateVars, rateLimits, reactionLimits, admits, winAdmits,
                   recentTranslations, timers, marks, pairVars, relayVars>>

\* the reaction handler translates a message it has found not translated: the test
\* (false) and, after the reply, the mark
MarkTranslated(messageId, targetLang) ==
    /\ ~hasBeenTranslated(messageTranslations, messageId, targetLang, now)
    /\ markMessageTranslated(messageId, targetLang)
    /\ lastCall' = [fn |-> "markMessageTranslated", id |-> messageId, lang |-> targetLang,
                    at |-> now, result |-> TRUE]
    /\ UNCHANGED <<now, translateVars, rateLimits, reactionLimits, admits, winAdmits,
                   recentTranslations, marks, pairVars, relayVars>>

TickCompanion ==
    \E d \in CompanionSteps :
        /\ now + d <= 1 + MaxWindows * COMPANION_CLEANUP
        /\ now' = now + d
        /\ UNCHANGED <<limiterVars, guardVars, translateVars, pairVars, relayVars>>

NextCompanion ==
    \/ \E messageId \in CompanionMessages : TestTranslated(messageId, Es)
    \/ \E messageId \in CompanionMessages : MarkTranslated(messageId, Es)
    \/ \E tm \in timers : CompanionTimerFires(tm)
    \/ TickCompanion

SpecCompanion == InitCompanionSpec /\ [][NextCompanion]_vars

\* the times of the marks of `key` whose clean-up timer has not run
MarkedAt(key) ==
    {tm.due - COMPANION_CLEANUP :
         tm \in {x \in timers : x.fn = "messageTranslations.delete" /\ x.id = key}}

\* C35: at every time from a mark of (id, lang) to COMPANION_TTL later,
\* hasBeenTranslated(id, lang) is true, whatever earlier marks of the key exist and
\* whenever their clean-up timers run.
C35_FullWindow ==
    \A messageId \in CompanionMessages :
        \A t \in MarkedAt(CompanionKey(messageId, Es)) :
            now \in t..(t + COMPANION_TTL)
                => hasBeenTranslated(messageTranslations, messageId, Es, now)

(***************************************************************************)
(* SpecTwin: two calls of translate for one cache key, which may overlap   *)
(***************************************************************************)
MaxTwinCalls == 2        \* twin: calls of translate

CallTwin(text, sourceLang, targetLang) ==
    /\ Len(tasks) < MaxTwinCalls
    /\ tasks' = Append(tasks, TranslateStart(NewCall(text, sourceLang, targetLang)))
    /\ UNCHANGED <<now, translateVars, limiterVars, guardVars, pairVars, messages,
                   pendingEvents, sends>>

NextTwin ==
    \/ \E r \in OverlapRequests : CallTwin(r[1], r[2], r[3])
    \/ \E self \in 1..Len(tasks), answer \in {"ok", "malformed", "fail"} :
           DeepLResponds(self, answer)
    \/ \E self \in 1..Len(tasks), answer \in {"ok", "fail"} : MyMemoryResponds(self, answer)
    \/ TickTranslate

SpecTwin == InitTranslateSpec /\ [][NextTwin]_vars

\* call `b` started after call `a`, for the same triple, when no call for the triple
\* had stored a result, and `a` has not returned or returned a provider's answer:
\* the provider request of `a` was in flight when `b` started
Overlapped(a, b) ==
    /\ a < b
    /\ tasks[b].latest = 0
    /\ SameTriple(tasks[a], tasks[b].text, tasks[b].src, tasks[b].tgt)
    /\ Invoked(tasks[a], "deepl") \/ Invoked(tasks[a], "mymemory")
    /\ ~IsDone(tasks[a]) \/ Stored(tasks[a])

InvokedProvider(tk) == ~Invoked(tk, "cache") /\ (Invoked(tk, "deepl") \/ Invoked(tk, "mymemory"))

\* C36: when a call of translate starts while the provider request of an earlier
\* call for the same triple is in flight, both calls miss the cache and each invokes
\* a provider; and once calls for a triple have stored, the cache holds one entry
\* for its key, with the result and the timestamp of the call that returned last.
C36_OverlappingRequests ==
    /\ \A b \in Calls : \A a \in 1..(b - 1) :
           Overlapped(a, b) => InvokedProvider(tasks[a]) /\ InvokedProvider(tasks[b])
    /\ \A r \in OverlapRequests :
           LET last == LatestStoredNow(r[1], r[2], r[3])
               key == CacheKey(r[1], r[2], r[3])
           IN  last # 0 =>
                   /\ key \in DOMAIN translationCache
                   /\ translationCache[key] = [result |-> tasks[last].result,
                                               timestamp |-> tasks[last].endedAt]
                   /\ Cardinality(DOMAIN translationCache) = 1

\* two overlapping calls have both returned a provider's text, the texts differ, and
\* the call that started first returned last, at a later time: its result and
\* timestamp are the cached ones
C36_Witness ==
    \E a \in Calls, b \in Calls :
        /\ Overlapped(a, b) /\ GotText(tasks[a]) /\ GotText(tasks[b])
        /\ tasks[a].endSeq > tasks[b].endSeq /\ tasks[a].endedAt > tasks[b].endedAt
        /\ tasks[a].result # tasks[b].result
        /\ LatestStoredNow(tasks[a].text, tasks[a].src, tasks[a].tgt) = a
        /\ translationCache[CacheKey(tasks[a].text, tasks[a].src, tasks[a].tgt)].result
               = tasks[a].result

(***************************************************************************)
(* SpecQuota: one member reacts with a flag to a message with text and to  *)
(* a file without text, all within one millisecond; translations and       *)
(* replies may fail                                                        *)
(***************************************************************************)
MaxQuotaReactions == 2     \* handler invocations that reach an await

QuotaEvents ==
    { <<1, FALSE, 1, "ES", FALSE>>, <<1, FALSE, 1, "ES", TRUE>>, <<1, FALSE, 2, "ES", FALSE>> }

QuotaPosted(user, bot, id, emoji, partial) ==
    /\ Len(tasks) < MaxQuotaReactions
    /\ MessageReactionAdd(user, bot, id, emoji, partial)

NextQuota ==
    \/ \E e \in QuotaEvents : QuotaPosted(e[1], e[2], e[3], e[4], e[5])
    \/ \E self \in 1..Len(tasks), ok \in BOOLEAN : ReactionFetchResponds(self, ok)
    \/ \E self \in 1..Len(tasks), answer \in {"ok", "fail"} : DeepLResponds(self, answer)
    \/ \E self \in 1..Len(tasks), answer \in {"ok", "fail"} : MyMemoryResponds(self, answer)
    \/ \E self \in 1..Len(tasks) : ReplyAccepted(self)
    \/ \E self \in 1..Len(tasks) : ReplyFails(self)
    \/ \E self \in 1..Len(tasks) : ReplyReturns(self)

SpecQuota == InitReactionSpec /\ [][NextQuota]_vars

\* the checks of the reaction handler run in this step for a reaction of `user` to
\* message `id`
ChecksRun(user, id) ==
    \/ \E e \in QuotaEvents :
           e[1] = user /\ e[3] = id /\ ~e[5] /\ QuotaPosted(e[1], e[2], e[3], e[4], e[5])
    \/ \E self \in 1..Len(tasks) :
           /\ tasks[self].user = user /\ tasks[self].msg = id
           /\ ReactionFetchResponds(self, TRUE)

\* this step takes one unit of the quota of `user` in the channel of message `id`
Consumed(user, id) ==
    LET key == ReactionKey(user, messages[id].guild, messages[id].channel) IN
    /\ key \in DOMAIN reactionLimits'
    /\ reactionLimits'[key].count =
           IF WindowOpen(reactionLimits, key, now) THEN reactionLimits[key].count + 1 ELSE 1

\* the translation of reaction task `j` fails in this step
FailsNow(j) == tasks[j].outcome # "failed" /\ tasks'[j].outcome = "failed"

\* C37: a reaction that passes the burst limiter and is then dropped as already
\* translated or as having no text, or goes on to translate, has taken one unit of
\* the user's quota in the step of its checks; a translation that fails later gives
\* no unit back and leaves the companion guard unmarked.
C37_QuotaBeforeDuplicate ==
    [][/\ \A user \in Users, id \in 1..Len(messages) :
              (/\ lastCall'.fn = "messageReactionAdd"
               /\ lastCall'.verdict \in {"duplicate", "empty", "translate"}
               /\ lastCall'.user = user /\ lastCall'.id = id
               /\ ChecksRun(user, id))
                  => Consumed(user, id)
       /\ \A j \in Reactions :
              FailsNow(j) => UNCHANGED <<reactionLimits, messageTranslations, timers>>]_vars

\* a translation requested by a reaction has failed and its message and language
\* are not marked, and the user's quota counts more units than the user has
\* translations: a reaction dropped after the limiter has taken one
C37_Witness ==
    \E j \in Reactions :
        LET key == ReactionKey(tasks[j].user, messages[tasks[j].msg].guild,
                               messages[tasks[j].msg].channel)
        IN  /\ tasks[j].outcome = "failed"
            /\ CompanionKey(tasks[j].msg, tasks[j].tgt) \notin DOMAIN messageTranslations
            /\ key \in DOMAIN reactionLimits
            /\ reactionLimits[key].count >
                   Cardinality({k \in Reactions : tasks[k].user = tasks[j].user})
            /\ lastCall.fn = "messageReactionAdd" /\ lastCall.verdict = "empty"

(***************************************************************************)
(* SpecHit: calls of translate for one triple, before and after the entry  *)
(* of its key expires                                                      *)
(***************************************************************************)
MaxHitCalls == 3         \* hit: calls of translate
MaxHitTicks == 1         \* hit: cache lifetimes the clock may cover
HitRequests == {<<Privet, Auto, En>>}
\* the instants just before and at the end of a lifetime that started at 1
HitInstants == {1} \cup UNION {{k * CACHE_TTL, 1 + k * CACHE_TTL} : k \in 1..MaxHitTicks}

\* faulty variant: a hit refreshes the timestamp of the entry
CacheRefreshedOnHit(cache, key, t) ==
    IF CacheHit(cache, key, t) THEN [cache EXCEPT ![key].timestamp = t] ELSE cache

\* translationCache after `translationCache.get(cacheKey)` and the age test: the
\* lookup writes nothing
CacheAfterLookup(cache, key, t) == cache

\* a direct call of translate, up to its first await or its return
CallCached(text, sourceLang, targetLang) ==
    /\ Len(tasks) < MaxHitCalls
    /\ tasks' = Append(tasks, TranslateStart(NewCall(text, sourceLang, targetLang)))
    /\ translationCache' =
           CacheAfterLookup(translationCache, CacheKey(text, sourceLang, targetLang), now)
    /\ UNCHANGED <<now, deeplKey, limiterVars, guardVars, pairVars, messages,
                   pendingEvents, sends>>

TickHit ==
    \E t \in HitInstants :
        /\ tasks # <<>> /\ t > now
        /\ now' = t
        /\ UNCHANGED <<limiterVars, guardVars, translateVars, pairVars, relayVars>>

NextHit ==
    \/ \E r \in HitRequests : CallCached(r[1], r[2], r[3])
    \/ \E self \in 1..Len(tasks), answer \in {"ok", "fail"} : DeepLResponds(self, answer)
    \/ \E self \in 1..Len(tasks), answer \in {"ok", "fail"} : MyMemoryResponds(self, answer)
    \/ TickHit

SpecHit == InitTranslateSpec /\ [][NextHit]_vars

\* the call that starts in this step is answered from the cache
HitNow == Len(tasks') = Len(tasks) + 1 /\ Invoked(tasks'[Len(tasks')], "cache")

\* C38: a call of translate that is answered from the cache leaves translationCache
\* as it was; and a call that follows a hit on the same entry is a hit exactly when
\* the entry was stored less than CACHE_TTL before the call, whenever it was read.
C38_HitReadOnly ==
    /\ [][\A r \in HitRequests :
              (HitNow /\ CallCached(r[1], r[2], r[3])) => UNCHANGED translationCache]_vars
    /\ [](\A a \in Calls, b \in Calls :
              (/\ a < b /\ Invoked(tasks[a], "cache")
               /\ SameTriple(tasks[a], tasks[b].text, tasks[b].src, tasks[b].tgt)
               /\ tasks[a].latest = tasks[b].latest)
                  => (Invoked(tasks[b], "cache")
                          <=> tasks[b].at - tasks[tasks[b].latest].endedAt < CACHE_TTL))

\* an entry was read one millisecond before the end of its lifetime, and the call
\* made at the end of its lifetime, one millisecond after that hit, went to a
\* provider
C38_Witness ==
    \E a \in Calls, b \in Calls :
        /\ a < b /\ Invoked(tasks[a], "cache") /\ tasks[a].latest = tasks[b].latest
        /\ tasks[a].at - tasks[tasks[a].latest].endedAt = CACHE_TTL - 1
        /\ tasks[b].at - tasks[a].at = 1
        /\ ~Invoked(tasks[b], "cache") /\ InvokedProvider(tasks[b])
====
